---- MODULE Spec2Model ----
(***************************************************************************)
(* Leaf: the ingestion pipeline (process_csv_task), the Redis session      *)
(* store and the shared books table, as listed in                          *)
(* backend/BOOK_RECOMMENDATION.md and the product overview document.       *)
(***************************************************************************)
EXTENDS Integers, Sequences, FiniteSets, TLC

(***************************************************************************)
(* Bounds of the model                                                     *)
(***************************************************************************)
MaxRows == 2        \* rows of all uploaded exports together
MaxTicks == 2       \* number of clock advances in one behaviour
MaxLlmItems == 4    \* items in one answer of the reranker
MaxRequests == 2    \* recommendation requests that store their result
MaxAdvances == 4    \* advances of the calendar in one behaviour
MaxPolls == 2       \* status polls of one page awaiting their response
MaxFetchRows == 3   \* export rows whose book is fetched from Google Books
MaxClock == 4       \* last reading of the browser's clock
MaxClicks == 4      \* clicks on Back, Next and Skip of the questions page
MaxPollers == 2     \* status pollers of the home page that are followed
MaxInFlight == 2    \* status requests of one poller awaiting their response
MaxSeconds == 2     \* seconds of polling on the home page that are followed
MaxLoads == 2       \* generateQuestion requests under way for one question

(***************************************************************************)
(* Program constants                                                       *)
(***************************************************************************)
SESSION_TTL == 3600             \* setex(..., 3600, ...)
TTL_REFRESH_INTERVAL == 30      \* "Every 30 seconds during processing"
PROGRESS_INTERVAL == 10         \* "Updates progress in Redis every 10 books"

Sessions == {"s1", "s2"}

\* ISBN values of export rows: NoIsbn is an empty ISBN/ISBN13 cell, SeedIsbn
\* is a book of the seeded corpus, NewIsbn is a book only Google Books
\* knows, UnknownIsbn is a book nobody knows.
NoIsbn == ""
SeedIsbn == "isbn_seed"
NewIsbn == "isbn_new"
UnknownIsbn == "isbn_unknown"
Isbns == {NoIsbn, SeedIsbn, NewIsbn, UnknownIsbn}

\* 'My Rating' cell of a Goodreads export: 0 (falsy) when the user gave none
MyRatings == {0, 2, 5}
NoRating == -1                  \* Python None in user_rating

Rows == [isbn : Isbns, my_rating : MyRatings]
NoRow == [isbn |-> NoIsbn, my_rating |-> 0]

\* a TTL of a key that has none (redis_client.set without ex)
NoTTL == -1

VARIABLES
    books,            \* the shared books table: a set of rows
    sessionKey,       \* Redis key session:{id}
    statusKey,        \* Redis key session:{id}:csv_status
    metaKey,          \* Redis key session:{id}:metadata
    pc,               \* position of the Celery task of each session
    csv,              \* the uploaded export: well-formedness and len(df)
    idx,              \* rows of df already iterated
    row,              \* the row the loop is at
    user_books,       \* local list of the task
    new_books_added,  \* local counter of the task
    new_book,         \* id of the Book the task has just added
    error,            \* the exception the task ended with
    sinceRefresh,     \* seconds since the task started or last extended TTLs
    leaseIdx,         \* idx when the task last extended the session TTL
    hadSession,       \* whether the session existed when the task started
    ticks,            \* clock advances so far
    no_isbn_skips,    \* rows the task skipped at 'if not isbn: continue'
    req,              \* the recommendation request under way
    ret,              \* the call of _retrieve_candidates under way
    quality,          \* the call of _calculate_quality_score under way
    store,            \* the recommendations table, its clock and its clients
    page,             \* the recommendations page and the requests it has sent
    fetch,            \* the calls of fetch_from_google_books of one task
    provider,         \* SessionProvider, localStorage and the clock of the browser
    qpage,            \* QuestionsPage, the answers of the session and their syncs
    home,             \* Home, its status pollers and the session they write to
    qload             \* loadQuestion of QuestionsPage and the session it clears

vars == <<books, sessionKey, statusKey, metaKey, pc, csv, idx, row,
          user_books, new_books_added, new_book, error, sinceRefresh,
          leaseIdx, hadSession, ticks, no_isbn_skips, req, ret, quality, store,
          page, fetch, provider, qpage, home, qload>>

\* the variables of the components beside ingestion, request and retrieval
restVars == <<quality, store, page, fetch, provider, qpage, home, qload>>

ingestVars == <<books, sessionKey, statusKey, metaKey, pc, csv, idx, row,
                user_books, new_books_added, new_book, error, sinceRefresh,
                leaseIdx, hadSession, ticks, no_isbn_skips>>

workerVars == <<pc, idx, row, user_books, new_books_added, new_book,
                error, no_isbn_skips>>

(***************************************************************************)
(* Redis keys                                                              *)
(***************************************************************************)
AbsentSession == [exists |-> FALSE, ttl |-> 0, csv_uploaded |-> FALSE,
                  books_from_csv |-> << >>]
AbsentStatus == [exists |-> FALSE, ttl |-> 0, value |-> ""]
AbsentMeta == [exists |-> FALSE, ttl |-> 0, total_books_in_csv |-> 0,
               books_processed |-> 0, new_books_added |-> 0]

\* what GET /api/sessions/{id}/status reports as csv_status
CsvStatus(s) == IF statusKey[s].exists THEN statusKey[s].value ELSE "none"

\* a key after dt seconds: it is removed when its TTL has run out
Aged(key, absent, dt) ==
    IF ~key.exists \/ key.ttl = NoTTL THEN key
    ELSE IF key.ttl - dt <= 0 THEN absent
    ELSE [key EXCEPT !.ttl = key.ttl - dt]

\* redis_client.expire(key, 3600): nothing happens to a missing key
Expire(key) == IF key.exists THEN [key EXCEPT !.ttl = SESSION_TTL] ELSE key

(***************************************************************************)
(* Books table                                                             *)
(***************************************************************************)
\* the seeded corpus: four books with embeddings, ids 1..4
SeedIsbns == <<SeedIsbn, "isbn_seed_2", "isbn_seed_3", "isbn_seed_4">>

SeedBooks == {[id |-> i, isbn |-> SeedIsbns[i], embedded |-> TRUE,
               data_source |-> "seed"] : i \in 1 .. Len(SeedIsbns)}

NextId == 1 + Cardinality(books)

\* db.query(Book).filter_by(isbn=isbn).first()
ExistingBooks(isbn) == {b \in books : b.isbn = isbn}

\* isbn VARCHAR(20) UNIQUE NOT NULL: the commit of a second row with the
\* same isbn raises IntegrityError
UniqueViolation(isbn) == ExistingBooks(isbn) # {}

\* fetch_from_google_books: volumeInfo, or None when the request fails, the
\* status is not 200 or there are no items
GoogleResponses(isbn) ==
    IF isbn = NewIsbn THEN {"volume_info", "None"} ELSE {"None"}

\* int(user_rating) if user_rating else None
UserRating(my_rating) == IF my_rating = 0 THEN NoRating ELSE my_rating

Running == {"iter", "row", "fetch", "insert", "embed"}

Running_(s) == pc[s] \in Running

(***************************************************************************)
(* A recommendation request: generate_recommendations                      *)
(***************************************************************************)
\* what the reranker may name: the ids of the corpus and one id no book has
LlmIds == 1 .. (Len(SeedIsbns) + 1)

RECURSIVE SeqsUpTo(_, _)
SeqsUpTo(S, n) ==
    IF n = 0 THEN {<< >>}
    ELSE LET shorter == SeqsUpTo(S, n - 1)
         IN  shorter \cup {Append(q, x) : q \in {t \in shorter : Len(t) = n - 1},
                                          x \in S}

\* the content of response.choices[0].message.content: text json.loads
\* rejects, or a list of items each naming a book_id
LlmResponses == [parses : {FALSE}, items : {<< >>}] \cup
                [parses : {TRUE}, items : SeqsUpTo(LlmIds, MaxLlmItems)]

NoResponse == [parses |-> FALSE, items |-> << >>]

IdleRequest == [pc |-> "idle", candidates |-> {}, llm_calls |-> 0,
                response |-> NoResponse, recommendations |-> << >>,
                error |-> "none"]

\* recommendations[:3]
FirstThree(items) == SubSeq(items, 1, IF Len(items) < 3 THEN Len(items) ELSE 3)

\* candidate_books = _retrieve_candidates(...); if not candidate_books: raise
StartRequest(candidate_books) ==
    /\ req.pc = "idle"
    /\ candidate_books \subseteq {b.id : b \in books}
    /\ req' = IF candidate_books = {}
              THEN [req EXCEPT !.pc = "failed", !.error = "ValueError"]
              ELSE [req EXCEPT !.pc = "llm", !.candidates = candidate_books]
    /\ UNCHANGED <<ingestVars, ret, restVars>>

\* _generate_with_llm: one chat completion, json.loads, rank, [:3]
GenerateWithLlm(response) ==
    /\ req.pc = "llm"
    /\ req' = IF ~response.parses
              THEN [req EXCEPT !.pc = "failed", !.error = "JSONDecodeError",
                               !.llm_calls = @ + 1, !.response = response]
              ELSE [req EXCEPT !.pc = "store", !.llm_calls = @ + 1,
                               !.response = response,
                               !.recommendations = FirstThree(response.items)]
    /\ UNCHANGED <<ingestVars, ret, restVars>>

\* _store_recommendations: one row per item, book_id REFERENCES books(id)
StoreRecommendations ==
    /\ req.pc = "store"
    /\ req' = IF \E i \in 1 .. Len(req.recommendations) :
                     req.recommendations[i] \notin {b.id : b \in books}
              THEN [req EXCEPT !.pc = "failed", !.error = "IntegrityError",
                               !.recommendations = << >>]
              ELSE [req EXCEPT !.pc = "done"]
    /\ UNCHANGED <<ingestVars, ret, restVars>>

(***************************************************************************)
(* Candidate retrieval: _retrieve_candidates.  Similarities, weights and   *)
(* quality scores are in percent; the similarity of a candidate is kept in *)
(* units of 1 / SimilarityUnits so that the products of the scoring stages *)
(* are exact.                                                              *)
(***************************************************************************)
SIMILARITY_THRESHOLD == 30          \* SIMILARITY_THRESHOLD = 0.3
MIN_RELEVANT_BOOKS == 2
MIN_DISLIKES == 2                   \* "min_dislikes": 2
DISLIKE_SIMILARITY_THRESHOLD == 60  \* "similarity_threshold": 0.6
PENALTY_STRENGTH == 30              \* "penalty_strength": 0.3
TOP_K == 20                         \* top_k: int = 20
HIGH_RATING == 4                    \* b.get('user_rating', 0) >= 4
LOW_RATING == 2                     \* b.get('user_rating', 0) <= 2

SimilarityUnits == 32000

\* the corpus of a retrieval: CorpusSize books with embeddings, the first of
\* them the seeded book of the exports
CorpusSize == 23

CorpusBooks == {[id |-> i,
                 isbn |-> IF i = 1 THEN SeedIsbn ELSE "isbn_corpus",
                 embedded |-> TRUE, data_source |-> "seed"] : i \in 1 .. CorpusSize}

\* An embedding is a direction, given by its angle in steps; the query is a
\* direction too.  The last book of the corpus is another edition of book 14
\* and has its embedding.
EmbeddingOf(id) == IF id = CorpusSize THEN 14 ELSE id

Abs(x) == IF x < 0 THEN 0 - x ELSE x

\* 1 - cosine_distance(a, b), in percent: it falls with the angle between
\* the two directions, below zero for directions far apart
Similarity(a, b) == 100 - 5 * Abs(a - b)

\* the embeddings of the queries of the model
Queries == {10, 24}

\* the books of a user's library and the ratings of its entries
LibraryIds == {3, 4, 14, 18}
UserRatings == {NoRating, 2, 3, 4}

RECURSIVE SortedEntries(_, _)
SortedEntries(S, rating) ==
    IF S = {} THEN << >>
    ELSE LET m == CHOOSE x \in S : \A y \in S : x <= y
         IN  <<[book_id |-> m, user_rating |-> rating[m]]>>
                 \o SortedEntries(S \ {m}, rating)

\* user_books: list of {book_id, title, author, user_rating}
Libraries == UNION {{SortedEntries(S, r) : r \in [S -> UserRatings]} :
                    S \in SUBSET LibraryIds}

\* the metadata of a book: description, categories, ratings_count,
\* page_count, publisher
Metadata(id) ==
    IF id % 5 = 0
    THEN [description |-> 0, categories |-> 0, ratings_count |-> 0,
          page_count |-> 0, publisher |-> FALSE]
    ELSE IF id % 5 = 2
    THEN [description |-> 80, categories |-> 1, ratings_count |-> 50,
          page_count |-> 180, publisher |-> FALSE]
    ELSE [description |-> 500, categories |-> 3, ratings_count |-> 2000,
          page_count |-> 320, publisher |-> TRUE]

\* QualityScoreUnclamped: a description weight of 0.7 and no min(score, 1.0)
QualityScoreUnclamped(m) ==
    (IF m.description > 100 THEN 70
     ELSE IF m.description > 0 THEN 20 ELSE 0)
  + (IF m.categories >= 2 THEN 20
     ELSE IF m.categories > 0 THEN 10 ELSE 0)
  + (IF m.ratings_count > 100 THEN 20
     ELSE IF m.ratings_count > 10 THEN 10 ELSE 0)
  + (IF m.page_count # 0 THEN 5 ELSE 0)
  + (IF m.publisher THEN 5 ELSE 0)

\* _calculate_quality_score, in percent; description is len(description)
\* with 0 for none, page_count 0 for none
QualityScore(m) ==
    LET score == (IF m.description > 100 THEN 50
                  ELSE IF m.description > 0 THEN 20 ELSE 0)
               + (IF m.categories >= 2 THEN 20
                  ELSE IF m.categories > 0 THEN 10 ELSE 0)
               + (IF m.ratings_count > 100 THEN 20
                  ELSE IF m.ratings_count > 10 THEN 10 ELSE 0)
               + (IF m.page_count # 0 THEN 5 ELSE 0)
               + (IF m.publisher THEN 5 ELSE 0)
    IN  IF score < 100 THEN score ELSE 100

\* a retrieved Book with its similarity attribute
Candidate(id, target) ==
    [id |-> id,
     similarity |-> Similarity(EmbeddingOf(id), target)
                        * (SimilarityUnits \div 100)]

\* the rows a vector search can return: books that have an embedding and
\* are not excluded
Eligible(table, exclude_ids) ==
    {b \in table : b.embedded /\ b.id \notin exclude_ids}

\* the limit rows of S nearest to target, nearest first
RECURSIVE Nearest(_, _, _)
Nearest(S, target, limit) ==
    IF limit <= 0 \/ S = {} THEN << >>
    ELSE LET sim(b) == Similarity(EmbeddingOf(b.id), target)
             best == CHOOSE b \in S : \A c \in S :
                         \/ sim(b) > sim(c)
                         \/ sim(b) = sim(c) /\ b.id <= c.id
         IN  <<Candidate(best.id, target)>>
                 \o Nearest(S \ {best}, target, limit - 1)

\* NearestOfAll: the search without the filter on the embedding; a book
\* without embedding has no distance and comes after the others
NearestOfAll(table, embedding, limit, exclude_ids) ==
    LET found == Nearest(Eligible(table, exclude_ids), embedding, limit)
        rest == {b \in table : ~b.embedded /\ b.id \notin exclude_ids}
    IN  IF Len(found) < limit /\ rest # {}
        THEN Append(found, [id |-> (CHOOSE b \in rest : TRUE).id,
                            similarity |-> 0])
        ELSE found

\* vector_search.search_similar_books(db, embedding, limit, exclude_ids)
search_similar_books(table, embedding, limit, exclude_ids) ==
    Nearest(Eligible(table, exclude_ids), embedding, limit)

RECURSIVE SumEmbeddings(_)
SumEmbeddings(book_ids) ==
    IF book_ids = << >> THEN 0
    ELSE EmbeddingOf(Head(book_ids)) + SumEmbeddings(Tail(book_ids))

\* vector_search.search_similar_to_books(db, book_ids, limit, exclude_ids):
\* the books nearest to the mean embedding of book_ids
search_similar_to_books(table, book_ids, limit, exclude_ids) ==
    Nearest(Eligible(table, exclude_ids),
            SumEmbeddings(book_ids) \div Len(book_ids), limit)

BookIds(entries) == [i \in 1 .. Len(entries) |-> entries[i].book_id]

Range(q) == {q[i] : i \in 1 .. Len(q)}

\* highly_rated = [b for b in user_books if b.get('user_rating', 0) >= 4]
HighlyRated(entries) ==
    LET high(b) == b.user_rating >= HIGH_RATING
    IN  SelectSeq(entries, high)

\* strong_dislikes: 0 < user_rating <= 2
StrongDislikes(entries) ==
    LET low(b) == b.user_rating <= LOW_RATING /\ b.user_rating > 0
    IN  SelectSeq(entries, low)

\* _filter_relevant_books: the entries whose book has an embedding with
\* similarity to the query of at least the threshold
FilterRelevantBooks(table, query_embedding, entries) ==
    LET relevant(e) ==
            \E b \in table :
                /\ b.id = e.book_id
                /\ b.embedded
                /\ Similarity(query_embedding, EmbeddingOf(b.id))
                       >= SIMILARITY_THRESHOLD
    IN  SelectSeq(entries, relevant)

Min(a, b) == IF a < b THEN a ELSE b

\* TierWeightShrinking: the weight with the sign of the slope of the second
\* tier reversed
TierWeightShrinking(tier, n) ==
    IF tier = "relevant_favorites" THEN Min(50, 20 + (n - 2) * 10)
    ELSE IF tier = "highly_rated" THEN Min(30, 15 - (n - 1) * 5)
    ELSE IF tier = "all_books" THEN Min(20, 10 + (n - 1) * 2)
    ELSE 0

\* the collaborative weight of a tier for n seed books, in percent
TierWeight(tier, n) ==
    IF tier = "relevant_favorites" THEN Min(50, 20 + (n - 2) * 10)
    ELSE IF tier = "highly_rated" THEN Min(30, 15 + (n - 1) * 5)
    ELSE IF tier = "all_books" THEN Min(20, 10 + (n - 1) * 2)
    ELSE 0

\* the tier, the seed books and the weight: lines 565-595
Seeds(table, query_embedding, entries) ==
    LET highly_rated == HighlyRated(entries)
        relevant_favorites ==
            FilterRelevantBooks(table, query_embedding, highly_rated)
    IN  IF entries = << >>
        THEN [tier |-> "none", books |-> << >>]
        ELSE IF highly_rated # << >>
        THEN IF Len(relevant_favorites) >= MIN_RELEVANT_BOOKS
             THEN [tier |-> "relevant_favorites", books |-> relevant_favorites]
             ELSE [tier |-> "highly_rated", books |-> highly_rated]
        ELSE [tier |-> "all_books", books |-> entries]

\* ExcludeIdsOfFavorites: only the highly rated books are excluded
ExcludeIdsOfFavorites(entries) == Range(BookIds(HighlyRated(entries)))

\* exclude_ids = [b['book_id'] for b in user_books]
ExcludeIds(entries) == Range(BookIds(entries))

\* CollaborativeLimitRounded: round(top_k * collaborative_weight)
CollaborativeLimitRounded(top_k, collaborative_weight) ==
    (top_k * collaborative_weight + 50) \div 100

\* int(top_k * collaborative_weight)
CollaborativeLimit(top_k, collaborative_weight) ==
    (top_k * collaborative_weight) \div 100

IdleRetrieval ==
    [pc |-> "idle", query |-> 0, user_books |-> << >>, tier |-> "none",
     book_ids |-> << >>, collaborative_weight |-> 0, exclude_ids |-> {},
     user_similar |-> << >>, candidates |-> << >>, without_embedding |-> {},
     scored |-> << >>, penalized |-> FALSE, error |-> "none"]

\* _retrieve_candidates up to 'exclude_ids = ...': a rating of None makes
\* the comparison of the first list comprehension raise
RetrieveStart(query, entries) ==
    /\ ret.pc = "idle"
    /\ ret' = IF \E i \in 1 .. Len(entries) : entries[i].user_rating = NoRating
              THEN [ret EXCEPT !.pc = "failed", !.error = "TypeError",
                               !.query = query, !.user_books = entries]
              ELSE LET seeds == Seeds(books, query, entries)
                   IN  [ret EXCEPT
                           !.pc = "collaborative",
                           !.query = query,
                           !.user_books = entries,
                           !.tier = seeds.tier,
                           !.book_ids = BookIds(seeds.books),
                           !.collaborative_weight =
                               TierWeight(seeds.tier, Len(seeds.books)),
                           !.exclude_ids = ExcludeIds(entries)]
    /\ UNCHANGED <<ingestVars, req, restVars>>

\* 'if collaborative_weight > 0': the collaborative candidates
CollaborativeSearch ==
    /\ ret.pc = "collaborative"
    /\ LET user_similar ==
               IF ret.collaborative_weight > 0
               THEN search_similar_to_books(books, ret.book_ids,
                        CollaborativeLimit(TOP_K, ret.collaborative_weight),
                        ret.exclude_ids)
               ELSE << >>
       IN  ret' = [ret EXCEPT
                      !.pc = "semantic",
                      !.user_similar = user_similar,
                      !.candidates = user_similar,
                      !.exclude_ids = @ \cup {c.id : c \in Range(user_similar)}]
    /\ UNCHANGED <<ingestVars, req, restVars>>

\* "Semantic search fills remaining slots"
SemanticSearch ==
    /\ ret.pc = "semantic"
    /\ LET semantic_count == TOP_K - Len(ret.candidates)
           query_similar == search_similar_books(books, ret.query,
                                semantic_count, ret.exclude_ids)
       IN  ret' = [ret EXCEPT !.pc = "quality",
                              !.candidates = @ \o query_similar,
                              !.without_embedding =
                                  {b.id : b \in {x \in books : ~x.embedded}}]
    /\ UNCHANGED <<ingestVars, req, restVars>>

\* candidates.sort(key=similarity, reverse=True): a stable sort
RECURSIVE SortBySimilarity(_)
SortBySimilarity(q) ==
    IF q = << >> THEN << >>
    ELSE LET sorted == SortBySimilarity(SubSeq(q, 1, Len(q) - 1))
             x == q[Len(q)]
             k == Cardinality({i \in 1 .. Len(sorted) :
                                  sorted[i].similarity >= x.similarity})
         IN  SubSeq(sorted, 1, k) \o <<x>> \o SubSeq(sorted, k + 1, Len(sorted))

\* ApplyQualityScoringUnsorted: the scores adjusted, the list not re-sorted
ApplyQualityScoringUnsorted(candidates) ==
    [i \in 1 .. Len(candidates) |->
        [candidates[i] EXCEPT
            !.similarity = (@ * QualityScore(Metadata(candidates[i].id)))
                               \div 100]]

\* _apply_quality_scoring
ApplyQualityScoring(candidates) ==
    SortBySimilarity(
        [i \in 1 .. Len(candidates) |->
            [candidates[i] EXCEPT
                !.similarity = (@ * QualityScore(Metadata(candidates[i].id)))
                                   \div 100]])

QualityScoringStage ==
    /\ ret.pc = "quality"
    /\ ret' = [ret EXCEPT !.pc = "penalty",
                          !.candidates = ApplyQualityScoring(@)]
    /\ UNCHANGED <<ingestVars, req, restVars>>

Max(a, b) == IF a > b THEN a ELSE b

\* max_similarity of a candidate to the disliked books that have an embedding
RECURSIVE MaxSimilarity(_, _, _)
MaxSimilarity(table, id, disliked_ids) ==
    IF disliked_ids = {} THEN 0
    ELSE LET d == CHOOSE x \in disliked_ids : TRUE
             others == MaxSimilarity(table, id, disliked_ids \ {d})
         IN  IF \E b \in table : b.id = d /\ b.embedded
             THEN Max(others, Similarity(EmbeddingOf(id), EmbeddingOf(d)))
             ELSE others

\* PenalizedFlat: the full penalty_strength for every candidate above the
\* threshold ("30% score reduction")
PenalizedFlat(similarity, max_similarity) ==
    IF max_similarity >= DISLIKE_SIMILARITY_THRESHOLD
    THEN (similarity * (100 - PENALTY_STRENGTH)) \div 100
    ELSE similarity

\* candidate.similarity *= (1 - penalty), with
\* penalty = (penalty_range / max_range) * penalty_strength
Penalized(similarity, max_similarity) ==
    IF max_similarity >= DISLIKE_SIMILARITY_THRESHOLD
    THEN LET penalty_range == max_similarity - DISLIKE_SIMILARITY_THRESHOLD
             max_range == 100 - DISLIKE_SIMILARITY_THRESHOLD
         IN  (similarity * (max_range * 100 - penalty_range * PENALTY_STRENGTH))
                 \div (max_range * 100)
    ELSE similarity

\* _apply_dislike_penalty
ApplyDislikePenalty(table, candidates, disliked_books) ==
    SortBySimilarity(
        [i \in 1 .. Len(candidates) |->
            IF \E b \in table : b.id = candidates[i].id /\ b.embedded
            THEN [candidates[i] EXCEPT
                     !.similarity =
                         Penalized(@, MaxSimilarity(table, candidates[i].id,
                                       Range(BookIds(disliked_books))))]
            ELSE candidates[i]])

\* 'Apply dislike penalty if warranted' and 'return candidates[:top_k]'
DislikePenaltyStage ==
    /\ ret.pc = "penalty"
    /\ LET strong_dislikes == StrongDislikes(ret.user_books)
           warranted == /\ ret.user_books # << >>
                        /\ Len(strong_dislikes) >= MIN_DISLIKES
           candidates == IF warranted
                         THEN ApplyDislikePenalty(books, ret.candidates,
                                                  strong_dislikes)
                         ELSE ret.candidates
       IN  ret' = [ret EXCEPT
                      !.pc = "done",
                      !.scored = ret.candidates,
                      !.penalized = warranted,
                      !.candidates = SubSeq(candidates, 1,
                                            Min(TOP_K, Len(candidates)))]
    /\ UNCHANGED <<ingestVars, req, restVars>>

(***************************************************************************)
(* Initial state: the seeded corpus, no session                            *)
(***************************************************************************)
\* no call of _calculate_quality_score under way
IdleQuality == [pc |-> "idle", book |-> Metadata(0), quality_score |-> 0]

\* the components beside ingestion, request and retrieval at rest
\* an empty recommendations table on day 0, both sessions live in Redis
EmptyStore == [rows |-> {}, today |-> 0, live |-> Sessions, scores |-> {},
               requests |-> 0, advances |-> 0, last |-> "none"]

\* the recommendations page before it is mounted: the useState defaults,
\* the session of the context, the csv_status the server would report
UnmountedPage ==
    [mounted |-> FALSE, phase |-> "loading_recommendations",
     isLoading |-> FALSE, error |-> "none", recommendations |-> 0,
     hasLoaded |-> FALSE, polling |-> FALSE, polls |-> 0,
     loads |-> 0, overdue |-> 0,
     csv_uploaded |-> FALSE, csv_status |-> "none",
     server_status |-> "none",
     session_id |-> "none", currentSession |-> "none",
     starts |-> [s \in Sessions |-> 0], skipped |-> FALSE]

\* no call of fetch_from_google_books made yet
NoFetch == [pc |-> "idle", calls |-> 0, outcome |-> "none", log |-> << >>]

\* session_id and expires_at of defaultState
DefaultState == [session_id |-> "none", expires_at |-> 0]

\* localStorage without the key leaf_session_state
NoStoredState == [present |-> FALSE, session_id |-> "none", expires_at |-> 0]

\* the application before its first mount, in a browser that has never
\* stored a session
FreshBrowser ==
    [mounted |-> FALSE, state |-> DefaultState, dirty |-> FALSE,
     ls_id |-> "none", ls_state |-> NoStoredState,
     validation |-> "none", clock |-> 1, live |-> {}, created |-> {},
     expired_id |-> "none"]

\* the keys question_<n> that setAnswer can write
QuestionKeys == (2 - MaxClicks) .. (2 + MaxClicks)

\* QuestionsPage at its first render, in a session without answers
FirstRender ==
    [currentQuestion |-> 1, isLoadingQuestion |-> TRUE,
     isSubmitting |-> FALSE, loading |-> {1}, loaded |-> {},
     answers |-> [k \in QuestionKeys |-> "null"],
     backend |-> [k \in 1 .. 3 |-> "null"],
     pending |-> {}, clicks |-> 0, route |-> "/questions"]

\* csv_status values the status endpoint reports, and "none" for a session
\* without an export
ServerStatuses == {"none", "pending", "processing", "completed", "failed"}

\* a poller without a request under way
NoInFlight == [st \in ServerStatuses |-> 0]

\* QuestionsPage after handleSubmit of the home page has stored question 1
\* and navigated: the session s1 in the context and in localStorage
QuestionsMounted ==
    [session_id |-> "s1", ls_id |-> "s1",
     questions |-> [k \in 1 .. 3 |-> IF k = 1 THEN "generated" ELSE "null"],
     currentQuestion |-> 1, isLoadingQuestion |-> FALSE,
     inflight |-> [k \in 1 .. 3 |-> 0],
     route |-> "/questions", live |-> TRUE]

\* Home at its first render, in a browser without a session
FreshHome ==
    [query |-> FALSE, csvFile |-> FALSE, csvUploadStatus |-> "idle",
     isSubmitting |-> FALSE, select |-> "idle", submit |-> "idle",
     submit_csv |-> FALSE, session_id |-> "none", csv_status |-> "none",
     csv_uploaded |-> FALSE, server |-> [s \in Sessions |-> "absent"],
     pollers |-> <<>>, route |-> "/", seconds |-> 0]

InitRest ==
    /\ quality = IdleQuality
    /\ store = EmptyStore
    /\ page = UnmountedPage
    /\ fetch = NoFetch
    /\ provider = FreshBrowser
    /\ qpage = FirstRender
    /\ home = FreshHome
    /\ qload = QuestionsMounted

\* the ingestion, the request and the retrieval at rest
InitBackend ==
    /\ books = SeedBooks
    /\ sessionKey = [s \in Sessions |-> AbsentSession]
    /\ statusKey = [s \in Sessions |-> AbsentStatus]
    /\ metaKey = [s \in Sessions |-> AbsentMeta]
    /\ pc = [s \in Sessions |-> "idle"]
    /\ csv = [s \in Sessions |-> [malformed |-> FALSE, total |-> 0]]
    /\ idx = [s \in Sessions |-> 0]
    /\ row = [s \in Sessions |-> NoRow]
    /\ user_books = [s \in Sessions |-> << >>]
    /\ new_books_added = [s \in Sessions |-> 0]
    /\ new_book = [s \in Sessions |-> 0]
    /\ error = [s \in Sessions |-> "none"]
    /\ sinceRefresh = [s \in Sessions |-> 0]
    /\ leaseIdx = [s \in Sessions |-> 0]
    /\ hadSession = [s \in Sessions |-> FALSE]
    /\ ticks = 0
    /\ no_isbn_skips = [s \in Sessions |-> 0]
    /\ req = IdleRequest
    /\ ret = IdleRetrieval

Init == InitBackend /\ InitRest

\* rows of the exports uploaded so far
UploadedRows == csv["s1"].total + csv["s2"].total

(***************************************************************************)
(* POST /api/sessions/create with a CSV file                               *)
(***************************************************************************)
CreateSession(s, malformed, total) ==
    /\ pc[s] = "idle"
    /\ ~sessionKey[s].exists /\ ~statusKey[s].exists
    /\ sessionKey' = [sessionKey EXCEPT ![s] =
           [exists |-> TRUE, ttl |-> SESSION_TTL, csv_uploaded |-> TRUE,
            books_from_csv |-> << >>]]
    /\ statusKey' = [statusKey EXCEPT ![s] =
           [exists |-> TRUE, ttl |-> SESSION_TTL, value |-> "pending"]]
    /\ csv' = [csv EXCEPT ![s] = [malformed |-> malformed, total |-> total]]
    /\ pc' = [pc EXCEPT ![s] = "queued"]
    /\ UNCHANGED <<books, metaKey, idx, row, user_books, new_books_added,
                   new_book, error, sinceRefresh,
                   leaseIdx, hadSession, ticks, no_isbn_skips, req, ret, restVars>>

(***************************************************************************)
(* process_csv_task                                                        *)
(***************************************************************************)
\* the task raises: nothing below the raising statement runs
Raise(s, exc) ==
    /\ pc' = [pc EXCEPT ![s] = "crashed"]
    /\ error' = [error EXCEPT ![s] = exc]

\* redis_client.set(csv_status, "processing"); df = pd.read_csv(csv_path)
StartTask(s) ==
    /\ pc[s] = "queued"
    /\ statusKey' = [statusKey EXCEPT ![s] =
           [exists |-> TRUE, ttl |-> NoTTL, value |-> "processing"]]
    /\ sinceRefresh' = [sinceRefresh EXCEPT ![s] = 0]
    /\ leaseIdx' = [leaseIdx EXCEPT ![s] = 0]
    /\ hadSession' = [hadSession EXCEPT ![s] = sessionKey[s].exists]
    /\ IF csv[s].malformed
       THEN /\ Raise(s, "ParserError")
            /\ UNCHANGED <<idx, user_books, new_books_added>>
       ELSE /\ pc' = [pc EXCEPT ![s] = "iter"]
            /\ idx' = [idx EXCEPT ![s] = 0]
            /\ user_books' = [user_books EXCEPT ![s] = << >>]
            /\ new_books_added' = [new_books_added EXCEPT ![s] = 0]
            /\ UNCHANGED error
    /\ UNCHANGED <<books, sessionKey, metaKey, csv, row, new_book,
                   ticks, no_isbn_skips, req, ret, restVars>>

\* user_books.append({book_id, title, author, user_rating})
Entry(book_id, my_rating) ==
    [book_id |-> book_id, user_rating |-> UserRating(my_rating)]

\* 'for idx, row in df.iterrows()': the loop takes the next row of the
\* export.  The loop variable row is kept while the iteration is under way:
\* its value between two iterations is never read.
NextRow(s, r) ==
    /\ pc[s] = "iter"
    /\ idx[s] < csv[s].total
    /\ row' = [row EXCEPT ![s] = r]
    /\ pc' = [pc EXCEPT ![s] = "row"]
    /\ UNCHANGED <<books, sessionKey, statusKey, metaKey, csv, idx,
                   user_books, new_books_added, new_book, error,
                   sinceRefresh,
                   leaseIdx, hadSession, ticks, no_isbn_skips, req, ret, restVars>>

\* CheckRow with the identifier check after the append: a row without
\* identifier leaves an entry without book in user_books
CheckRowAppendsNoIsbn(s) ==
    /\ pc[s] = "row"
    /\ IF row[s].isbn = NoIsbn
       THEN \* if not isbn: continue
            /\ idx' = [idx EXCEPT ![s] = idx[s] + 1]
            /\ pc' = [pc EXCEPT ![s] = "iter"]
            /\ row' = [row EXCEPT ![s] = NoRow]
            /\ no_isbn_skips' = [no_isbn_skips EXCEPT ![s] = @ + 1]
            /\ user_books' = [user_books EXCEPT ![s] =
                   Append(user_books[s], Entry(0, row[s].my_rating))]
       ELSE IF ExistingBooks(row[s].isbn) # {}
       THEN \* existing_book: append and continue
            /\ \E b \in ExistingBooks(row[s].isbn) :
                   user_books' = [user_books EXCEPT ![s] =
                       Append(user_books[s], Entry(b.id, row[s].my_rating))]
            /\ idx' = [idx EXCEPT ![s] = idx[s] + 1]
            /\ pc' = [pc EXCEPT ![s] = "iter"]
            /\ row' = [row EXCEPT ![s] = NoRow]
            /\ UNCHANGED no_isbn_skips
       ELSE /\ pc' = [pc EXCEPT ![s] = "fetch"]
            /\ UNCHANGED <<idx, row, user_books, no_isbn_skips>>
    /\ UNCHANGED <<books, sessionKey, statusKey, metaKey, csv,
                   new_books_added, new_book, error, sinceRefresh,
                   leaseIdx, hadSession, ticks, req, ret, restVars>>

\* CheckRow that stores the rating of the row on the existing book
CheckRowRatesBook(s) ==
    /\ pc[s] = "row"
    /\ IF row[s].isbn = NoIsbn
       THEN \* if not isbn: continue
            /\ idx' = [idx EXCEPT ![s] = idx[s] + 1]
            /\ pc' = [pc EXCEPT ![s] = "iter"]
            /\ row' = [row EXCEPT ![s] = NoRow]
            /\ no_isbn_skips' = [no_isbn_skips EXCEPT ![s] = @ + 1]
            /\ UNCHANGED user_books
       ELSE IF ExistingBooks(row[s].isbn) # {}
       THEN \* existing_book: append and continue
            /\ \E b \in ExistingBooks(row[s].isbn) :
                   user_books' = [user_books EXCEPT ![s] =
                       Append(user_books[s], Entry(b.id, row[s].my_rating))]
            /\ idx' = [idx EXCEPT ![s] = idx[s] + 1]
            /\ pc' = [pc EXCEPT ![s] = "iter"]
            /\ row' = [row EXCEPT ![s] = NoRow]
            /\ UNCHANGED no_isbn_skips
       ELSE /\ pc' = [pc EXCEPT ![s] = "fetch"]
            /\ UNCHANGED <<idx, row, user_books, no_isbn_skips>>
    /\ books' = IF row[s].isbn = NoIsbn THEN books
                ELSE {IF b.isbn = row[s].isbn
                      THEN [b EXCEPT !.data_source = "user_csv"] ELSE b :
                      b \in books}
    /\ UNCHANGED <<sessionKey, statusKey, metaKey, csv,
                   new_books_added, new_book, error, sinceRefresh,
                   leaseIdx, hadSession, ticks, req, ret, restVars>>

\* the loop body up to the call of fetch_from_google_books
CheckRow(s) ==
    /\ pc[s] = "row"
    /\ IF row[s].isbn = NoIsbn
       THEN \* if not isbn: continue
            /\ idx' = [idx EXCEPT ![s] = idx[s] + 1]
            /\ pc' = [pc EXCEPT ![s] = "iter"]
            /\ row' = [row EXCEPT ![s] = NoRow]
            /\ no_isbn_skips' = [no_isbn_skips EXCEPT ![s] = @ + 1]
            /\ UNCHANGED user_books
       ELSE IF ExistingBooks(row[s].isbn) # {}
       THEN \* existing_book: append and continue
            /\ \E b \in ExistingBooks(row[s].isbn) :
                   user_books' = [user_books EXCEPT ![s] =
                       Append(user_books[s], Entry(b.id, row[s].my_rating))]
            /\ idx' = [idx EXCEPT ![s] = idx[s] + 1]
            /\ pc' = [pc EXCEPT ![s] = "iter"]
            /\ row' = [row EXCEPT ![s] = NoRow]
            /\ UNCHANGED no_isbn_skips
       ELSE /\ pc' = [pc EXCEPT ![s] = "fetch"]
            /\ UNCHANGED <<idx, row, user_books, no_isbn_skips>>
    /\ UNCHANGED <<books, sessionKey, statusKey, metaKey, csv,
                   new_books_added, new_book, error, sinceRefresh,
                   leaseIdx, hadSession, ticks, req, ret, restVars>>

\* Fetch without 'if not google_data: continue': google_data['title'] of
\* None raises
FetchNoNoneCheck(s, response) ==
    /\ pc[s] = "fetch"
    /\ response \in GoogleResponses(row[s].isbn)
    /\ IF response = "None"
       THEN /\ Raise(s, "TypeError")
            /\ UNCHANGED <<idx, row>>
       ELSE /\ pc' = [pc EXCEPT ![s] = "insert"]
            /\ UNCHANGED <<idx, row, error>>
    /\ UNCHANGED <<books, sessionKey, statusKey, metaKey, csv, user_books,
                   new_books_added, new_book, sinceRefresh, leaseIdx,
                   hadSession, ticks, no_isbn_skips, req, ret, restVars>>

\* google_data = fetch_from_google_books(isbn); if not google_data: continue
Fetch(s, response) ==
    /\ pc[s] = "fetch"
    /\ response \in GoogleResponses(row[s].isbn)
    /\ IF response = "None"
       THEN /\ idx' = [idx EXCEPT ![s] = idx[s] + 1]
            /\ pc' = [pc EXCEPT ![s] = "iter"]
            /\ row' = [row EXCEPT ![s] = NoRow]
       ELSE /\ pc' = [pc EXCEPT ![s] = "insert"]
            /\ UNCHANGED <<idx, row>>
    /\ UNCHANGED <<books, sessionKey, statusKey, metaKey, csv, user_books,
                   new_books_added, new_book, error, sinceRefresh,
                   leaseIdx, hadSession, ticks, no_isbn_skips, req, ret, restVars>>

\* new_book = Book(isbn=isbn, ...); db.add(new_book); db.commit()
InsertBook(s) ==
    /\ pc[s] = "insert"
    /\ IF UniqueViolation(row[s].isbn)
       THEN /\ Raise(s, "IntegrityError")
            /\ UNCHANGED <<books, new_book>>
       ELSE /\ books' = books \cup
                  {[id |-> NextId, isbn |-> row[s].isbn, embedded |-> FALSE,
                    data_source |-> "user_csv_google_books"]}
            /\ new_book' = [new_book EXCEPT ![s] = NextId]
            /\ pc' = [pc EXCEPT ![s] = "embed"]
            /\ UNCHANGED error
    /\ UNCHANGED <<sessionKey, statusKey, metaKey, csv, idx, row,
                   user_books, new_books_added, sinceRefresh,
                   leaseIdx, hadSession, ticks, no_isbn_skips, req, ret, restVars>>

\* embedding = create_embedding(book_text); new_book.embedding = embedding;
\* db.commit(); user_books.append(...); new_books_added += 1;
\* redis_client.setex(metadata, 3600, {...})
EmbedAndRecord(s, embedded) ==
    /\ pc[s] = "embed"
    /\ IF embedded
       THEN /\ books' = {IF b.id = new_book[s]
                         THEN [b EXCEPT !.embedded = TRUE] ELSE b : b \in books}
            /\ user_books' = [user_books EXCEPT ![s] =
                   Append(user_books[s], Entry(new_book[s], row[s].my_rating))]
            /\ new_books_added' = [new_books_added EXCEPT ![s] =
                   new_books_added[s] + 1]
            /\ metaKey' = [metaKey EXCEPT ![s] =
                   [exists |-> TRUE, ttl |-> SESSION_TTL,
                    total_books_in_csv |-> csv[s].total,
                    books_processed |-> idx[s] + 1,
                    new_books_added |-> new_books_added[s] + 1]]
            /\ idx' = [idx EXCEPT ![s] = idx[s] + 1]
            /\ pc' = [pc EXCEPT ![s] = "iter"]
            /\ row' = [row EXCEPT ![s] = NoRow]
            /\ new_book' = [new_book EXCEPT ![s] = 0]
            /\ UNCHANGED error
       ELSE \* the embedding service fails: create_embedding raises
            /\ Raise(s, "OpenAIError")
            /\ UNCHANGED <<books, user_books, new_books_added, metaKey, idx,
                           row, new_book>>
    /\ UNCHANGED <<sessionKey, statusKey, csv, sinceRefresh,
                   leaseIdx, hadSession, ticks, no_isbn_skips, req, ret, restVars>>

CompletedStatusTypo ==
    [exists |-> TRUE, ttl |-> SESSION_TTL, value |-> "complete"]

\* redis_client.setex(csv_status, 3600, "completed")
CompletedStatus ==
    [exists |-> TRUE, ttl |-> SESSION_TTL, value |-> "completed"]

\* Step 6 and "Mark as completed"
Finish(s) ==
    /\ pc[s] = "iter"
    /\ idx[s] = csv[s].total
    /\ IF ~sessionKey[s].exists
       THEN \* json.loads(redis_client.get(...)) of a missing key
            /\ Raise(s, "TypeError")
            /\ UNCHANGED <<sessionKey, statusKey>>
       ELSE /\ sessionKey' = [sessionKey EXCEPT ![s] =
                   [@ EXCEPT !.ttl = SESSION_TTL,
                             !.books_from_csv = user_books[s]]]
            /\ statusKey' = [statusKey EXCEPT ![s] = CompletedStatus]
            /\ pc' = [pc EXCEPT ![s] = "done"]
            /\ UNCHANGED error
    /\ UNCHANGED <<books, metaKey, csv, idx, row, user_books,
                   new_books_added, new_book, sinceRefresh,
                   leaseIdx, hadSession, ticks, no_isbn_skips, req, ret, restVars>>

\* "Every 30 seconds during processing": expire(session), expire(csv_status)
ExtendTTL(s) ==
    /\ Running_(s)
    /\ sinceRefresh[s] = TTL_REFRESH_INTERVAL
    /\ sessionKey' = [sessionKey EXCEPT ![s] = Expire(@)]
    /\ statusKey' = [statusKey EXCEPT ![s] = Expire(@)]
    /\ sinceRefresh' = [sinceRefresh EXCEPT ![s] = 0]
    /\ leaseIdx' = [leaseIdx EXCEPT ![s] = idx[s]]
    /\ UNCHANGED <<books, metaKey, csv, workerVars, hadSession, ticks, req, ret, restVars>>

(***************************************************************************)
(* Time: dt seconds pass.  A running task extends the TTLs when its        *)
(* 30 seconds are over, so no more time than that passes before it does.   *)
(***************************************************************************)
TimeSteps == {TTL_REFRESH_INTERVAL, SESSION_TTL - 20}

Tick(dt) ==
    /\ ticks < MaxTicks
    /\ \A s \in Sessions :
           Running_(s) => sinceRefresh[s] + dt <= TTL_REFRESH_INTERVAL
    /\ ticks' = ticks + 1
    /\ sessionKey' = [s \in Sessions |-> Aged(sessionKey[s], AbsentSession, dt)]
    /\ statusKey' = [s \in Sessions |-> Aged(statusKey[s], AbsentStatus, dt)]
    /\ metaKey' = [s \in Sessions |-> Aged(metaKey[s], AbsentMeta, dt)]
    /\ sinceRefresh' = [s \in Sessions |->
           IF Running_(s) THEN sinceRefresh[s] + dt ELSE sinceRefresh[s]]
    /\ UNCHANGED <<books, csv, workerVars, leaseIdx, hadSession, req, ret, restVars>>

Next ==
    \/ \E s \in Sessions, m \in BOOLEAN, n \in 0 .. MaxRows - UploadedRows :
           CreateSession(s, m, n)
    \/ \E s \in Sessions : StartTask(s)
    \/ \E s \in Sessions, r \in Rows : NextRow(s, r)
    \/ \E s \in Sessions : CheckRow(s)
    \/ \E s \in Sessions, g \in {"volume_info", "None"} : Fetch(s, g)
    \/ \E s \in Sessions : InsertBook(s)
    \/ \E s \in Sessions, e \in BOOLEAN : EmbedAndRecord(s, e)
    \/ \E s \in Sessions : Finish(s)
    \/ \E s \in Sessions : ExtendTTL(s)
    \/ \E dt \in TimeSteps : Tick(dt)

Spec == Init /\ [][Next]_vars

\* one session whose export is longer than the progress interval
LongRows == {[isbn |-> SeedIsbn, my_rating |-> 5],
             [isbn |-> NewIsbn, my_rating |-> 5]}

NextLong ==
    \/ CreateSession("s1", FALSE, PROGRESS_INTERVAL + 1)
    \/ StartTask("s1")
    \/ \E r \in LongRows : NextRow("s1", r)
    \/ CheckRow("s1")
    \/ \E g \in {"volume_info", "None"} : Fetch("s1", g)
    \/ InsertBook("s1")
    \/ \E e \in BOOLEAN : EmbedAndRecord("s1", e)
    \/ Finish("s1")
    \/ ExtendTTL("s1")
    \/ \E dt \in TimeSteps : Tick(dt)

SpecLong == Init /\ [][NextLong]_vars

\* the recommendation request alone, over the seeded corpus
NextSelect ==
    \/ \E c \in SUBSET {b.id : b \in SeedBooks} : StartRequest(c)
    \/ \E r \in LlmResponses : GenerateWithLlm(r)
    \/ StoreRecommendations

SpecSelect == Init /\ [][NextSelect]_vars

\* candidate retrieval over the corpus, while the task of one session adds
\* the book of a one-row export to the books table
InitRetrieve ==
    /\ InitRest
    /\ books = CorpusBooks
    /\ sessionKey = [s \in Sessions |-> AbsentSession]
    /\ statusKey = [s \in Sessions |-> AbsentStatus]
    /\ metaKey = [s \in Sessions |-> AbsentMeta]
    /\ pc = [s \in Sessions |-> "idle"]
    /\ csv = [s \in Sessions |-> [malformed |-> FALSE, total |-> 0]]
    /\ idx = [s \in Sessions |-> 0]
    /\ row = [s \in Sessions |-> NoRow]
    /\ user_books = [s \in Sessions |-> << >>]
    /\ new_books_added = [s \in Sessions |-> 0]
    /\ new_book = [s \in Sessions |-> 0]
    /\ error = [s \in Sessions |-> "none"]
    /\ sinceRefresh = [s \in Sessions |-> 0]
    /\ leaseIdx = [s \in Sessions |-> 0]
    /\ hadSession = [s \in Sessions |-> FALSE]
    /\ ticks = 0
    /\ no_isbn_skips = [s \in Sessions |-> 0]
    /\ req = IdleRequest
    /\ ret = IdleRetrieval

NextRetrieve ==
    \/ CreateSession("s1", FALSE, 1)
    \/ StartTask("s1")
    \/ NextRow("s1", [isbn |-> NewIsbn, my_rating |-> 5])
    \/ CheckRow("s1")
    \/ Fetch("s1", "volume_info")
    \/ InsertBook("s1")
    \/ EmbedAndRecord("s1", TRUE)
    \/ Finish("s1")
    \/ \E q \in Queries, l \in Libraries : RetrieveStart(q, l)
    \/ CollaborativeSearch
    \/ SemanticSearch
    \/ QualityScoringStage
    \/ DislikePenaltyStage

SpecRetrieve == InitRetrieve /\ [][NextRetrieve]_vars

(***************************************************************************)
(* generate_recommendations over a corpus that holds little beside the     *)
(* books of the library                                                    *)
(***************************************************************************)
\* a books table with the books a library can name and nothing else
SparseCorpus == {b \in CorpusBooks : b.id \in LibraryIds}

\* 'if not candidate_books: raise ValueError("No candidate books found")'
CheckCandidates ==
    /\ ret.pc = "done"
    /\ ret' = IF ret.candidates = << >>
              THEN [ret EXCEPT !.pc = "failed", !.error = "ValueError"]
              ELSE [ret EXCEPT !.pc = "retrieved"]
    /\ UNCHANGED <<ingestVars, req, restVars>>

InitSparse ==
    /\ InitRest
    /\ books = SparseCorpus
    /\ sessionKey = [s \in Sessions |-> AbsentSession]
    /\ statusKey = [s \in Sessions |-> AbsentStatus]
    /\ metaKey = [s \in Sessions |-> AbsentMeta]
    /\ pc = [s \in Sessions |-> "idle"]
    /\ csv = [s \in Sessions |-> [malformed |-> FALSE, total |-> 0]]
    /\ idx = [s \in Sessions |-> 0]
    /\ row = [s \in Sessions |-> NoRow]
    /\ user_books = [s \in Sessions |-> << >>]
    /\ new_books_added = [s \in Sessions |-> 0]
    /\ new_book = [s \in Sessions |-> 0]
    /\ error = [s \in Sessions |-> "none"]
    /\ sinceRefresh = [s \in Sessions |-> 0]
    /\ leaseIdx = [s \in Sessions |-> 0]
    /\ hadSession = [s \in Sessions |-> FALSE]
    /\ ticks = 0
    /\ no_isbn_skips = [s \in Sessions |-> 0]
    /\ req = IdleRequest
    /\ ret = IdleRetrieval

NextSparse ==
    \/ \E query \in Queries, entries \in Libraries :
           RetrieveStart(query, entries)
    \/ CollaborativeSearch
    \/ SemanticSearch
    \/ QualityScoringStage
    \/ DislikePenaltyStage
    \/ CheckCandidates

SpecSparse == InitSparse /\ [][NextSparse]_vars

(***************************************************************************)
(* The recommendations table: rows are added by a request, read by the     *)
(* feedback endpoint and deleted by the retention job                      *)
(***************************************************************************)
RETENTION_DAYS == 30    \* INTERVAL '30 days'

Ranks == {1, 2, 3}

\* days the calendar advances by in one step
DaySteps == {1, RETENTION_DAYS}

\* "Store in PostgreSQL with trace_id": one row per recommendation, with
\* created_at DEFAULT NOW(); the trace is the one of the request
StoreAndReturn(s) ==
    /\ s \in store.live
    /\ store.requests < MaxRequests
    /\ LET trace_id == store.requests + 1
       IN  store' = [store EXCEPT
               !.rows = @ \cup {[id |-> 3 * store.requests + k,
                                 session_id |-> s, rank |-> k,
                                 trace_id |-> trace_id,
                                 created_at |-> store.today] : k \in Ranks},
               !.requests = trace_id,
               !.last = "create"]
    /\ UNCHANGED <<ingestVars, req, ret, quality, page, fetch,
                   provider, qpage, home, qload>>

\* POST /api/recommendations/{recommendation_id}/feedback: fetch the row,
\* send the score to Langfuse under its trace_id
SubmitFeedback(recommendation_id, feedback_type) ==
    /\ \E r \in store.rows : r.id = recommendation_id
    /\ LET r == CHOOSE x \in store.rows : x.id = recommendation_id
       IN  store' = [store EXCEPT
               !.scores = @ \cup {[trace_id |-> r.trace_id,
                                   value |-> IF feedback_type = "like"
                                             THEN 1 ELSE 0]},
               !.last = "feedback"]
    /\ UNCHANGED <<ingestVars, req, ret, quality, page, fetch,
                   provider, qpage, home, qload>>

\* the Redis key of a session reaches its TTL
ExpireSession(s) ==
    /\ s \in store.live
    /\ store' = [store EXCEPT !.live = @ \ {s}, !.last = "expire"]
    /\ UNCHANGED <<ingestVars, req, ret, quality, page, fetch,
                   provider, qpage, home, qload>>

\* ExpiredOrSessionGone: the job also deletes the rows of sessions that no
\* longer exist in Redis
ExpiredOrSessionGone(r) ==
    \/ r.created_at < store.today - RETENTION_DAYS
    \/ r.session_id \notin store.live

\* created_at < NOW() - INTERVAL '30 days'
Expired(r) == r.created_at < store.today - RETENTION_DAYS

\* DELETE FROM recommendations WHERE created_at < NOW() - INTERVAL '30 days'
RetentionSweep ==
    /\ store' = [store EXCEPT !.rows = {r \in @ : ~Expired(r)},
                              !.last = "sweep"]
    /\ UNCHANGED <<ingestVars, req, ret, quality, page, fetch,
                   provider, qpage, home, qload>>

AdvanceDays(d) ==
    /\ store.advances < MaxAdvances
    /\ store' = [store EXCEPT !.today = @ + d, !.advances = @ + 1,
                              !.last = "advance"]
    /\ UNCHANGED <<ingestVars, req, ret, quality, page, fetch,
                   provider, qpage, home, qload>>

NextStore ==
    \/ \E s \in Sessions : StoreAndReturn(s)
    \/ \E id \in 1 .. 3 * MaxRequests, type \in {"like", "dislike"} :
           SubmitFeedback(id, type)
    \/ \E s \in Sessions : ExpireSession(s)
    \/ RetentionSweep
    \/ \E d \in DaySteps : AdvanceDays(d)

SpecStore == Init /\ [][NextStore]_vars

(***************************************************************************)
(* The recommendations page: RecommendationsPage                           *)
(***************************************************************************)
\* csv_uploaded and csv_status of the session context when the page mounts,
\* with the status the server reports from then on; handleFileSelect of the
\* home page sets csv_status to processing and leaves csv_uploaded false,
\* which only a poll answered with completed sets
MountStates ==
    {[csv_uploaded |-> FALSE, csv_status |-> "none", server_status |-> "none"]}
    \cup [csv_uploaded : {TRUE}, csv_status : {"pending", "processing"},
          server_status : {"pending", "processing", "completed", "failed"}]
    \cup [csv_uploaded : {FALSE}, csv_status : {"processing"},
          server_status : {"pending", "processing", "completed", "failed"}]
    \cup {[csv_uploaded |-> TRUE, csv_status |-> c, server_status |-> c] :
              c \in {"completed", "failed"}}

\* handleResponse and getUserFriendlyError: the message of the Error thrown
\* for a response that is not ok
UserFriendlyError(status) ==
    IF status = 404 THEN "Your session expired. Let's start fresh."
    ELSE IF status = 500
    THEN "Something went wrong on our end. Please try again."
    ELSE "An unexpected error occurred"

\* status codes of a response of GET .../recommendations that is not ok
ErrorStatuses == {404, 500, 503}

\* number of recommendations in a response that is ok
ResponseSizes == 0 .. 3

\* LoadRecommendationsUnlessFailed: no request is sent for a session whose
\* csv_status is failed
LoadRecommendationsUnlessFailed(p) ==
    IF p.csv_status = "failed" THEN p
    ELSE [p EXCEPT !.phase = "loading_recommendations", !.isLoading = TRUE,
                   !.error = "none", !.loads = @ + 1]

\* loadRecommendations up to the await: the request is sent
LoadRecommendations(p) ==
    [p EXCEPT !.phase = "loading_recommendations", !.isLoading = TRUE,
              !.error = "none", !.loads = @ + 1]

\* InitialPhaseEffectEveryRun: the effect without hasLoadedRef
InitialPhaseEffectEveryRun(p) ==
    LET r == [p EXCEPT !.hasLoaded = TRUE,
                       !.currentSession = p.session_id]
    IN  IF \/ ~r.csv_uploaded
           \/ r.csv_status \in {"none", "completed"}
        THEN LoadRecommendations(
                 [r EXCEPT !.starts[r.session_id] = @ + 1])
        ELSE IF r.csv_status \in {"processing", "pending"}
        THEN [r EXCEPT !.phase = "waiting_for_csv", !.polling = TRUE,
                       !.polls = @ + 1,
                       !.starts[r.session_id] = @ + 1]
        ELSE [r EXCEPT !.phase = "csv_failed"]

\* one run of the effect "Redirect if no session; determine initial phase"
\* for a session that exists: the page after it. starts counts, for every
\* session id, the loads and polling loops the effect has started
InitialPhaseEffect(p) ==
    LET \* "Reset if session changed"
        q == IF p.currentSession # p.session_id
             THEN [p EXCEPT !.hasLoaded = FALSE,
                            !.currentSession = p.session_id]
             ELSE p
    IN  IF q.hasLoaded THEN q
        ELSE LET r == [q EXCEPT !.hasLoaded = TRUE]
             IN  IF \/ ~r.csv_uploaded
                    \/ r.csv_status \in {"none", "completed"}
                 THEN LoadRecommendations(
                          [r EXCEPT !.starts[r.session_id] = @ + 1])
                 ELSE IF r.csv_status \in {"processing", "pending"}
                 THEN \* startPolling: poll() at once, then every 2 seconds
                      [r EXCEPT !.phase = "waiting_for_csv",
                                !.polling = TRUE, !.polls = @ + 1,
                                !.starts[r.session_id] = @ + 1]
                 ELSE [r EXCEPT !.phase = "csv_failed"]

\* the page mounts for the session s1 and the effect runs for the first time
DetermineInitialPhase(m) ==
    /\ ~page.mounted
    /\ m \in MountStates
    /\ page' = InitialPhaseEffect(
                   [page EXCEPT !.mounted = TRUE, !.session_id = "s1",
                                !.csv_uploaded = m.csv_uploaded,
                                !.csv_status = m.csv_status,
                                !.server_status = m.server_status])
    /\ UNCHANGED <<ingestVars, req, ret, quality, store, fetch,
                   provider, qpage, home, qload>>

\* setInterval(poll, 2000) fires: getSessionStatus is sent
PollTick ==
    /\ page.polling
    /\ page.polls < MaxPolls
    /\ page' = [page EXCEPT !.polls = @ + 1]
    /\ UNCHANGED <<ingestVars, req, ret, quality, store, fetch,
                   provider, qpage, home, qload>>

\* the ingestion task of the session ends, or starts
ServerStatusChanges(status) ==
    /\ \/ page.server_status = "pending" /\ status = "processing"
       \/ page.server_status = "processing"
              /\ status \in {"completed", "failed"}
    /\ page' = [page EXCEPT !.server_status = status]
    /\ UNCHANGED <<ingestVars, req, ret, quality, store, fetch,
                   provider, qpage, home, qload>>

\* a poll gets its response, or throws (ok = FALSE); the effect runs again
\* when csv_status of the context has changed
PollResponse(ok) ==
    /\ page.polls > 0
    /\ page' =
           IF ok /\ page.server_status = "completed"
           THEN InitialPhaseEffect(
                    [page EXCEPT !.polls = @ - 1, !.polling = FALSE,
                                 !.csv_status = "completed",
                                 !.phase = "csv_ready"])
           ELSE IF ok /\ page.server_status = "failed"
           THEN InitialPhaseEffect(
                    [page EXCEPT !.polls = @ - 1, !.polling = FALSE,
                                 !.csv_status = "failed",
                                 !.phase = "csv_failed"])
           ELSE [page EXCEPT !.polls = @ - 1]
    /\ UNCHANGED <<ingestVars, req, ret, quality, store, fetch,
                   provider, qpage, home, qload>>

\* the button "Skip Upload" of the waiting_for_csv screen; the effect runs
\* again when csv_uploaded of the context has changed
HandleSkipUpload ==
    /\ page.mounted
    /\ page.phase = "waiting_for_csv"
    /\ page' = InitialPhaseEffect(LoadRecommendations(
                   [page EXCEPT !.polling = FALSE, !.csv_uploaded = FALSE,
                                !.skipped = TRUE]))
    /\ UNCHANGED <<ingestVars, req, ret, quality, store, fetch,
                   provider, qpage, home, qload>>

\* the button "Get Recommendations" of the csv_ready screen
HandleGetRecommendations ==
    /\ page.mounted
    /\ page.phase = "csv_ready"
    /\ page' = LoadRecommendations(page)
    /\ UNCHANGED <<ingestVars, req, ret, quality, store, fetch,
                   provider, qpage, home, qload>>

\* the button "Continue Without CSV" of the csv_failed screen
HandleContinueWithoutCsv ==
    /\ page.mounted
    /\ page.phase = "csv_failed"
    /\ page' = InitialPhaseEffect(
                   LoadRecommendations([page EXCEPT !.csv_uploaded = FALSE]))
    /\ UNCHANGED <<ingestVars, req, ret, quality, store, fetch,
                   provider, qpage, home, qload>>

\* the button "Try Again" of the error screen
HandleTryAgain ==
    /\ page.mounted
    /\ page.phase \in {"loading_recommendations", "done"}
    /\ ~page.isLoading
    /\ page.error # "none"
    /\ page' = LoadRecommendations(page)
    /\ UNCHANGED <<ingestVars, req, ret, quality, store, fetch,
                   provider, qpage, home, qload>>

\* time passes while requests for recommendations are under way: every one
\* of them has now run for longer than a request may
TimeElapses ==
    /\ page.loads > page.overdue
    /\ page' = [page EXCEPT !.overdue = page.loads]
    /\ UNCHANGED <<ingestVars, req, ret, quality, store, fetch,
                   provider, qpage, home, qload>>

\* await apiClient.getRecommendations resolves with n recommendations: the
\* pipeline of generate_recommendations has run to its end, however long it
\* took; late says whether the request answered had run for too long
LoadResolves(n, late) ==
    /\ page.loads > 0
    /\ IF late THEN page.overdue > 0 ELSE page.loads > page.overdue
    /\ page' = [page EXCEPT !.loads = @ - 1,
                            !.overdue = IF late THEN @ - 1 ELSE @,
                            !.recommendations = n,
                            !.phase = "done",
                            !.isLoading = FALSE]
    /\ UNCHANGED <<ingestVars, req, ret, quality, store, fetch,
                   provider, qpage, home, qload>>

\* await apiClient.getRecommendations throws for a response of this status
LoadRejects(status, late) ==
    /\ page.loads > 0
    /\ IF late THEN page.overdue > 0 ELSE page.loads > page.overdue
    /\ page' = [page EXCEPT !.loads = @ - 1,
                            !.overdue = IF late THEN @ - 1 ELSE @,
                            !.error = UserFriendlyError(status),
                            !.phase = "done",
                            !.isLoading = FALSE]
    /\ UNCHANGED <<ingestVars, req, ret, quality, store, fetch,
                   provider, qpage, home, qload>>

\* setSessionId and setCsvStatus("processing") of a handleFileSelect of the
\* home page whose createSession answers after the navigation: the context
\* holds another session id, and the effect runs again. Taken while no poll
\* of the earlier session is under way.
SessionChanges(s) ==
    /\ page.mounted
    /\ s # page.session_id
    /\ page.starts[s] = 0
    /\ ~page.polling
    /\ page.polls = 0
    /\ page' = InitialPhaseEffect(
                   [page EXCEPT !.session_id = s,
                                !.csv_status = "processing",
                                !.server_status = "pending",
                                !.skipped = FALSE])
    /\ UNCHANGED <<ingestVars, req, ret, quality, store, fetch,
                   provider, qpage, home, qload>>

NextPage ==
    \/ \E m \in MountStates : DetermineInitialPhase(m)
    \/ \E s \in Sessions : SessionChanges(s)
    \/ PollTick
    \/ \E status \in {"processing", "completed", "failed"} :
           ServerStatusChanges(status)
    \/ \E ok \in BOOLEAN : PollResponse(ok)
    \/ HandleSkipUpload
    \/ HandleGetRecommendations
    \/ HandleContinueWithoutCsv
    \/ HandleTryAgain
    \/ TimeElapses
    \/ \E n \in ResponseSizes, late \in BOOLEAN : LoadResolves(n, late)
    \/ \E status \in ErrorStatuses, late \in BOOLEAN :
           LoadRejects(status, late)

SpecPage == Init /\ [][NextPage]_vars

(***************************************************************************)
(* fetch_from_google_books, called by process_csv_task for the rows whose  *)
(* book is not in the books table                                          *)
(***************************************************************************)
\* what requests.get does: a response of status 200 with or without items,
\* a response of another status (429 is the rate limit), or an exception
HttpOutcomes == {"200 items", "200 no items", "429", "500",
                 "RequestException"}

\* google_data = fetch_from_google_books(isbn): the function is entered
FetchFromGoogleBooks ==
    /\ fetch.pc = "idle"
    /\ Len(fetch.log) < MaxFetchRows
    /\ fetch' = [fetch EXCEPT !.pc = "get", !.calls = 0, !.outcome = "none"]
    /\ UNCHANGED <<ingestVars, req, ret, quality, store, page,
                   provider, qpage, home, qload>>

\* requests.get(..., timeout=10) and the return of volume_info or None
RequestsGet(outcome) ==
    /\ fetch.pc = "get"
    /\ fetch' = [fetch EXCEPT !.pc = "returned", !.calls = @ + 1,
                              !.outcome = outcome]
    /\ UNCHANGED <<ingestVars, req, ret, quality, store, page,
                   provider, qpage, home, qload>>

\* 'if not google_data: continue', or the row goes on to the insert
RowAfterFetch ==
    /\ fetch.pc = "returned"
    /\ fetch' = [fetch EXCEPT
                     !.pc = "idle",
                     !.log = Append(@, [outcome |-> fetch.outcome,
                                        calls |-> fetch.calls,
                                        skipped |-> fetch.outcome
                                                        # "200 items"])]
    /\ UNCHANGED <<ingestVars, req, ret, quality, store, page,
                   provider, qpage, home, qload>>

NextFetch ==
    \/ FetchFromGoogleBooks
    \/ \E outcome \in HttpOutcomes : RequestsGet(outcome)
    \/ RowAfterFetch

SpecFetch == Init /\ [][NextFetch]_vars

(***************************************************************************)
(* SessionProvider and sessionStorage: the session kept in React state and *)
(* in localStorage.  The clock counts in session lifetimes: a session      *)
(* created at clock c has expires_at = c + 1.                              *)
(***************************************************************************)
\* state.expires_at && Date.now() > state.expires_at
IsExpired(stored, clock) ==
    stored.present /\ stored.expires_at # 0 /\ clock > stored.expires_at

\* sessionStorage.getSessionState: the state read, and localStorage after
\* the read (clearAll when the stored state has expired)
GetSessionState(ls_id, ls_state, clock) ==
    IF IsExpired(ls_state, clock)
    THEN [state |-> NoStoredState, ls_id |-> "none",
          ls_state |-> NoStoredState]
    ELSE [state |-> ls_state, ls_id |-> ls_id, ls_state |-> ls_state]

\* the effect "Load session from localStorage on mount"
LoadEffect ==
    /\ ~provider.mounted
    /\ LET sessionId == provider.ls_id
           read == GetSessionState(provider.ls_id, provider.ls_state,
                                   provider.clock)
           storedState == read.state
           restore == sessionId # "none" \/ storedState.present
       IN  provider' = [provider EXCEPT
               !.mounted = TRUE,
               !.ls_id = read.ls_id,
               !.ls_state = read.ls_state,
               !.state = IF ~restore THEN @
                         ELSE IF storedState.present
                         THEN [session_id |-> storedState.session_id,
                               expires_at |-> storedState.expires_at]
                         ELSE [@ EXCEPT !.session_id = sessionId],
               !.dirty = restore,
               !.validation = IF restore /\ sessionId # "none"
                              THEN "inflight" ELSE "none",
               !.expired_id = IF IsExpired(provider.ls_state, provider.clock)
                              THEN provider.ls_state.session_id
                              ELSE "none"]
    /\ UNCHANGED <<ingestVars, req, ret, quality, store, page, fetch, qpage, home, qload>>

\* the effect "Save to localStorage whenever state changes": saveSessionId,
\* then saveSessionState, which reads the stored state first
SaveEffect ==
    /\ provider.mounted
    /\ provider.dirty
    /\ provider' =
           IF provider.state.session_id = "none"
           THEN [provider EXCEPT !.dirty = FALSE]
           ELSE LET read == GetSessionState(provider.state.session_id,
                                            provider.ls_state, provider.clock)
                IN  [provider EXCEPT
                        !.dirty = FALSE,
                        !.ls_id = read.ls_id,
                        !.ls_state =
                            [present |-> TRUE,
                             session_id |-> provider.state.session_id,
                             expires_at |-> provider.state.expires_at]]
    /\ UNCHANGED <<ingestVars, req, ret, quality, store, page, fetch, qpage, home, qload>>

\* the answers getSessionStatus can get for a session
StatusAnswers(s, live) ==
    IF s \in live THEN {"ok", "error"} ELSE {"not found", "error"}

\* apiClient.getSessionStatus(sessionId) settles; .catch clears the session
\* when the message says expired or not found
ValidationSettles(answer) ==
    /\ provider.mounted
    /\ provider.validation = "inflight"
    /\ provider' =
           IF answer = "not found"
           THEN \* clearSession
                [provider EXCEPT !.validation = "none",
                                 !.state = DefaultState,
                                 !.dirty = TRUE,
                                 !.ls_id = "none",
                                 !.ls_state = NoStoredState]
           ELSE [provider EXCEPT !.validation = "none"]
    /\ UNCHANGED <<ingestVars, req, ret, quality, store, page, fetch, qpage, home, qload>>

\* the home page has created a session: setSessionId and setExpiresAt
SessionCreated(s) ==
    /\ provider.mounted
    /\ provider.state.session_id = "none"
    /\ s \notin provider.created
    /\ provider' = [provider EXCEPT
           !.state = [session_id |-> s, expires_at |-> provider.clock + 1],
           !.dirty = TRUE,
           !.live = @ \cup {s},
           !.created = @ \cup {s},
           !.expired_id = "none"]
    /\ UNCHANGED <<ingestVars, req, ret, quality, store, page, fetch, qpage, home, qload>>

\* the clock of the browser advances by one session lifetime
ClockAdvances ==
    /\ provider.clock < MaxClock
    /\ provider' = [provider EXCEPT !.clock = @ + 1]
    /\ UNCHANGED <<ingestVars, req, ret, quality, store, page, fetch, qpage, home, qload>>

\* the Redis key of a session expires
SessionKeyExpires(s) ==
    /\ s \in provider.live
    /\ provider' = [provider EXCEPT !.live = @ \ {s}]
    /\ UNCHANGED <<ingestVars, req, ret, quality, store, page, fetch, qpage, home, qload>>

\* the tab is closed or reloaded: the React state is gone, localStorage
\* stays
Unmount ==
    /\ provider.mounted
    /\ ~provider.dirty
    /\ provider' = [provider EXCEPT !.mounted = FALSE,
                                    !.state = DefaultState,
                                    !.validation = "none",
                                    !.expired_id = "none"]
    /\ UNCHANGED <<ingestVars, req, ret, quality, store, page, fetch, qpage, home, qload>>

NextProvider ==
    \/ LoadEffect
    \/ SaveEffect
    \/ \E answer \in StatusAnswers(provider.state.session_id, provider.live) :
           ValidationSettles(answer)
    \/ \E s \in Sessions : SessionCreated(s)
    \/ ClockAdvances
    \/ \E s \in Sessions : SessionKeyExpires(s)
    \/ Unmount

SpecProvider == Init /\ [][NextProvider]_vars

(***************************************************************************)
(* QuestionsPage: the three follow-up questions.  A click runs its handler *)
(* up to the await of session.setAnswer; the handler resumes, with the     *)
(* currentQuestion of the render it was created in, when the sync has      *)
(* settled.                                                                *)
(***************************************************************************)
\* what the user can have typed into the answer field
TypedAnswers == {"", "x"}

Buttons == {"back", "next", "skip"}

\* currentAnswer || null, and null for Skip
AnswerSaved(button, typed) ==
    IF button = "skip" \/ typed = "" THEN "null" ELSE typed

\* the effect that calls loadQuestion(currentQuestion) after a render with
\* question number q
LoadQuestion(p, q) ==
    IF q \in p.loaded THEN p
    ELSE [p EXCEPT !.isLoadingQuestion = TRUE, !.loading = @ \cup {q}]

\* generateQuestion settles (with a question or with the fallback)
QuestionLoads(q) ==
    /\ q \in qpage.loading
    /\ qpage' = [qpage EXCEPT !.loading = @ \ {q},
                              !.loaded = @ \cup {q},
                              !.isLoadingQuestion = FALSE]
    /\ UNCHANGED <<ingestVars, req, ret, quality, store, page, fetch, provider, home, qload>>

\* handleBack, handleNext or handleSkip up to its await: setAnswer updates
\* the local answers and posts them
Click(button, typed) ==
    /\ qpage.route = "/questions"
    /\ qpage.clicks < MaxClicks
    /\ ~qpage.isSubmitting
    /\ button # "back" => ~qpage.isLoadingQuestion
    /\ LET q == qpage.currentQuestion
           answer == AnswerSaved(button, typed)
           body == [qpage.answers EXCEPT ![q] = answer]
       IN  qpage' = [qpage EXCEPT
               !.clicks = @ + 1,
               !.answers = body,
               !.pending = @ \cup {[n |-> qpage.clicks + 1,
                                    button |-> button,
                                    currentQuestion |-> q,
                                    body |-> [k \in 1 .. 3 |-> body[k]],
                                    stage |-> "posted"]}]
    /\ UNCHANGED <<ingestVars, req, ret, quality, store, page, fetch, provider, home, qload>>

\* POST /api/sessions/{session_id}/answers: the session in Redis takes the
\* answers of the request
SubmitAnswers(h) ==
    /\ h \in qpage.pending
    /\ h.stage = "posted"
    /\ qpage' = [qpage EXCEPT
           !.backend = h.body,
           !.pending = (@ \ {h}) \cup {[h EXCEPT !.stage = "settled"]}]
    /\ UNCHANGED <<ingestVars, req, ret, quality, store, page, fetch, provider, home, qload>>

\* the request fails; setAnswer logs the error and returns
SyncFails(h) ==
    /\ h \in qpage.pending
    /\ h.stage = "posted"
    /\ qpage' = [qpage EXCEPT
           !.pending = (@ \ {h}) \cup {[h EXCEPT !.stage = "settled"]}]
    /\ UNCHANGED <<ingestVars, req, ret, quality, store, page, fetch, provider, home, qload>>

\* setCurrentQuestion((prev) => prev + d) and the render after it; a page
\* that has been left keeps its state
SetCurrentQuestion(p, d) ==
    IF p.route # "/questions" THEN p
    ELSE LoadQuestion([p EXCEPT !.currentQuestion = @ + d],
                      p.currentQuestion + d)

\* handleSubmit
HandleSubmit(p) ==
    [p EXCEPT !.isSubmitting = TRUE, !.route = "/recommendations"]

\* the rest of a handler, after the await
Resume(h) ==
    /\ h \in qpage.pending
    /\ h.stage = "settled"
    /\ LET p == [qpage EXCEPT !.pending = @ \ {h}]
       IN  qpage' =
               IF h.button = "back"
               THEN IF h.currentQuestion > 1
                    THEN SetCurrentQuestion(p, -1)
                    ELSE [p EXCEPT !.route = "/"]
               ELSE IF h.currentQuestion < 3
                    THEN SetCurrentQuestion(p, 1)
                    ELSE HandleSubmit(p)
    /\ UNCHANGED <<ingestVars, req, ret, quality, store, page, fetch, provider, home, qload>>

NextQuestions ==
    \/ \E q \in QuestionKeys : QuestionLoads(q)
    \/ \E button \in Buttons, typed \in TypedAnswers : Click(button, typed)
    \/ \E h \in qpage.pending : SubmitAnswers(h)
    \/ \E h \in qpage.pending : SyncFails(h)
    \/ \E h \in qpage.pending : Resume(h)

SpecQuestions == Init /\ [][NextQuestions]_vars

(***************************************************************************)
(* loadQuestion of QuestionsPage: the request for a follow-up question and *)
(* what the page does with its outcome.  A text is the sequence of its     *)
(* words.                                                                  *)
(***************************************************************************)
\* String.prototype.includes
Includes(text, phrase) ==
    \E i \in 1 .. (Len(text) - Len(phrase) + 1) :
        SubSeq(text, i, i + Len(phrase) - 1) = phrase

\* toLowerCase of one word
LowerWord(w) ==
    CASE w = "Session" -> "session"
      [] w = "Not" -> "not"
      [] w = "Found" -> "found"
      [] w = "Invalid" -> "invalid"
      [] w = "Internal" -> "internal"
      [] w = "Server" -> "server"
      [] w = "Error" -> "error"
      [] OTHER -> w

\* String.prototype.toLowerCase
ToLowerCase(text) == [i \in 1 .. Len(text) |-> LowerWord(text[i])]

\* the response of the backend for a session it no longer has
SessionNotFound == [status |-> 404, detail |-> <<"Session", "not", "found">>]

\* the response of a route the server does not have
RouteNotFound == [status |-> 404, detail |-> <<"Not", "Found">>]

\* fetch rejects: no response
FailedToFetch == [status |-> 0, detail |-> <<"Failed", "to", "fetch">>]

\* the responses of POST /api/sessions/{sessionId}/generate-question that
\* are not ok, beside SessionNotFound; the body of the last one is not JSON
OtherFailures ==
    {RouteNotFound, FailedToFetch,
     [status |-> 400, detail |-> <<"Invalid", "question", "number">>],
     [status |-> 500, detail |-> <<"Internal", "Server", "Error">>],
     [status |-> 503, detail |-> << >>]}

\* the response with a generated question
QuestionGeneratedOk == [status |-> 200, detail |-> << >>]

\* what a request can be answered with
Responses(live) ==
    IF live THEN {QuestionGeneratedOk} \cup OtherFailures
    ELSE {SessionNotFound} \cup OtherFailures

\* GetUserFriendlyErrorPlain404: every 404 gets the same message
GetUserFriendlyErrorPlain404(detail, status) ==
    IF status = 404
    THEN <<"We", "couldn't", "find", "what", "you're", "looking", "for", ".">>
    ELSE IF status = 400
    THEN IF Includes(ToLowerCase(detail), <<"csv">>)
         THEN <<"We", "couldn't", "read", "this", "file", ".">>
         ELSE IF Includes(ToLowerCase(detail), <<"trace">>)
         THEN <<"We", "couldn't", "submit", "your", "feedback", ".">>
         ELSE detail
    ELSE IF status = 500
    THEN <<"Something", "went", "wrong", "on", "our", "end", ".">>
    ELSE IF detail # << >> THEN detail
    ELSE <<"An", "unexpected", "error", "occurred", ".">>

\* getUserFriendlyError
GetUserFriendlyError(detail, status) ==
    IF status = 404
    THEN IF Includes(ToLowerCase(detail), <<"session">>)
         THEN <<"Your", "session", "expired", ".", "Let's", "start",
                "fresh", ".">>
         ELSE IF Includes(ToLowerCase(detail), <<"recommendation">>)
         THEN <<"We", "couldn't", "find", "that", "recommendation", ".">>
         ELSE <<"We", "couldn't", "find", "what", "you're", "looking",
                "for", ".">>
    ELSE IF status = 400
    THEN IF Includes(ToLowerCase(detail), <<"csv">>)
         THEN <<"We", "couldn't", "read", "this", "file", ".">>
         ELSE IF Includes(ToLowerCase(detail), <<"trace">>)
         THEN <<"We", "couldn't", "submit", "your", "feedback", ".">>
         ELSE detail
    ELSE IF status = 500
    THEN <<"Something", "went", "wrong", "on", "our", "end", ".">>
    ELSE IF detail # << >> THEN detail
    ELSE <<"An", "unexpected", "error", "occurred", ".">>

\* handleResponse: the message of the Error a request throws
ErrorMessage(r) ==
    IF r.status = 0 THEN r.detail
    ELSE GetUserFriendlyError(
             IF r.status = 503
             THEN <<"An", "unexpected", "error", "occurred">>
             ELSE r.detail,
             r.status)

\* loadQuestion(q), called by the effect "Load question when component
\* mounts or question number changes" of a page that is still mounted
LoadQuestionCall(p, q) ==
    IF p.route # "/questions" THEN p
    ELSE IF p.questions[q] # "null" THEN p
    ELSE IF p.session_id = "none"
    THEN [p EXCEPT !.isLoadingQuestion = FALSE]
    ELSE [p EXCEPT !.isLoadingQuestion = TRUE, !.inflight[q] = @ + 1]

\* no question has more requests under way than the model follows
WithinLoads(p) == \A k \in 1 .. 3 : p.inflight[k] <= MaxLoads

\* session.setQuestion, the save effect and the load effect of the render
\* after it
SetQuestion(p, q, question) ==
    LoadQuestionCall(
        [p EXCEPT !.questions[q] = question,
                  !.ls_id = IF p.session_id # "none" THEN p.session_id
                            ELSE @],
        p.currentQuestion)

\* session.clearSession: setState(defaultState) and sessionStorage.clearAll
ClearSession(p) ==
    [p EXCEPT !.session_id = "none", !.ls_id = "none",
              !.questions = [k \in 1 .. 3 |-> "null"]]

\* handleNext of a question before the last: setAnswer, whose change of the
\* session makes the load effect run, then the next question
LoadHandleNext ==
    /\ qload.route = "/questions"
    /\ ~qload.isLoadingQuestion
    /\ qload.currentQuestion < 3
    /\ LET p == LoadQuestionCall(qload, qload.currentQuestion)
           n == qload.currentQuestion + 1
       IN  /\ qload' = LoadQuestionCall([p EXCEPT !.currentQuestion = n], n)
           /\ WithinLoads(qload')
    /\ UNCHANGED <<ingestVars, req, ret, quality, store, page, fetch,
                   provider, qpage, home>>

\* handleBack of a question after the first, which is not disabled while a
\* question loads
LoadHandleBack ==
    /\ qload.route = "/questions"
    /\ qload.currentQuestion > 1
    /\ LET p == LoadQuestionCall(qload, qload.currentQuestion)
           n == qload.currentQuestion - 1
       IN  /\ qload' = LoadQuestionCall([p EXCEPT !.currentQuestion = n], n)
           /\ WithinLoads(qload')
    /\ UNCHANGED <<ingestVars, req, ret, quality, store, page, fetch,
                   provider, qpage, home>>

\* the Redis key of the session expires
SessionGoesAway ==
    /\ qload.live
    /\ qload' = [qload EXCEPT !.live = FALSE]
    /\ UNCHANGED <<ingestVars, req, ret, quality, store, page, fetch,
                   provider, qpage, home>>

\* await apiClient.generateQuestion settles with the response r: the rest
\* of loadQuestion(q)
QuestionSettles(q, r) ==
    /\ qload.inflight[q] > 0
    /\ r \in Responses(qload.live)
    /\ LET p == [qload EXCEPT !.inflight[q] = @ - 1,
                              !.isLoadingQuestion = FALSE]
           message == ErrorMessage(r)
       IN  /\ qload' =
                  IF r.status = 200 THEN SetQuestion(p, q, "generated")
                  ELSE IF \/ Includes(message, <<"expired">>)
                          \/ Includes(message, <<"not", "found">>)
                  THEN [ClearSession(p) EXCEPT !.route = "/"]
                  ELSE SetQuestion(p, q, "fallback")
           /\ WithinLoads(qload')
    /\ UNCHANGED <<ingestVars, req, ret, quality, store, page, fetch,
                   provider, qpage, home>>

NextLoad ==
    \/ LoadHandleNext
    \/ LoadHandleBack
    \/ SessionGoesAway
    \/ \E q \in 1 .. 3, r \in {QuestionGeneratedOk, SessionNotFound}
                               \cup OtherFailures :
           QuestionSettles(q, r)

SpecLoad == Init /\ [][NextLoad]_vars

(***************************************************************************)
(* Home: the main page, with handleFileSelect, handleSubmit, the effect    *)
(* that resumes polling and the pollers of pollCsvStatus.  A poller is the *)
(* closure of one call: its interval, its attempts and its requests under  *)
(* way, each with the status the server read for it.                       *)
(***************************************************************************)
maxAttempts == 120

\* status requests of poller p that await their response
InFlight(p) ==
    p.inflight["none"] + p.inflight["pending"] + p.inflight["processing"]
        + p.inflight["completed"] + p.inflight["failed"]

\* pollCsvStatus(sessionId): setInterval(..., 1000) with attempts = 0; the
\* pollers after the first MaxPollers are not followed
PollCsvStatus(h, sessionId) ==
    IF Len(h.pollers) >= MaxPollers THEN h
    ELSE [h EXCEPT !.pollers =
              Append(@, [sessionId |-> sessionId, active |-> TRUE,
                         attempts |-> 0, inflight |-> NoInFlight])]

\* setCsvUploadStatus of a Home that is still mounted
SetCsvUploadStatus(h, status) ==
    IF h.route = "/" THEN [h EXCEPT !.csvUploadStatus = status] ELSE h

\* the effect "Check if user has existing session with CSV data and resume
\* polling if needed"
ResumePolling(h) ==
    IF h.csv_status = "completed"
    THEN SetCsvUploadStatus(h, "success")
    ELSE IF h.csv_status = "processing" /\ h.session_id # "none"
    THEN PollCsvStatus(SetCsvUploadStatus(h, "uploading"), h.session_id)
    ELSE IF h.csv_status = "failed"
    THEN SetCsvUploadStatus(h, "error")
    ELSE h

\* a render of Home and its effects: pollCsvStatus is a new function in
\* every render, so the effect runs after every render, and once more when
\* it has changed csvUploadStatus itself
Render(h) ==
    IF h.route # "/" THEN h
    ELSE LET h1 == ResumePolling(h)
         IN  IF h1.csvUploadStatus # h.csvUploadStatus
             THEN ResumePolling(h1)
             ELSE h1

\* the session ids createSession has not given out yet (s1 is given out
\* first)
UnusedSessions(h) ==
    IF h.server["s1"] = "absent" THEN {"s1"}
    ELSE {s \in Sessions : h.server[s] = "absent"}

\* the user types a query
SetQuery ==
    /\ home.route = "/"
    /\ ~home.query
    /\ home' = Render([home EXCEPT !.query = TRUE])
    /\ UNCHANGED <<ingestVars, req, ret, quality, store, page, fetch,
                   provider, qpage, qload>>

\* handleFileSelect up to its await: createSession is sent with the file
HandleFileSelect ==
    /\ home.route = "/"
    /\ home.select = "idle"
    /\ UnusedSessions(home) # {}
    /\ home' = Render([home EXCEPT !.csvFile = TRUE,
                                   !.csvUploadStatus = "uploading",
                                   !.select = "creating"])
    /\ UNCHANGED <<ingestVars, req, ret, quality, store, page, fetch,
                   provider, qpage, qload>>

\* handleFileSelect after its await: the session is saved and polling
\* starts, or the catch block shows the error
FileSessionCreated(s, ok) ==
    /\ home.select = "creating"
    /\ s \in UnusedSessions(home)
    /\ home' =
           IF ok
           THEN Render(PollCsvStatus(
                    [home EXCEPT !.select = "idle",
                                 !.server[s] = "pending",
                                 !.session_id = s,
                                 !.csv_status = "processing"], s))
           ELSE Render(SetCsvUploadStatus([home EXCEPT !.select = "idle"],
                                          "error"))
    /\ UNCHANGED <<ingestVars, req, ret, quality, store, page, fetch,
                   provider, qpage, qload>>

\* the user comes back from /questions: Home mounts again, with its own
\* state new and the session of the context as it is
HomeMounts ==
    /\ home.route = "/questions"
    /\ home' = Render([home EXCEPT !.route = "/",
                                   !.csvFile = FALSE,
                                   !.csvUploadStatus = "idle",
                                   !.isSubmitting = FALSE])
    /\ UNCHANGED <<ingestVars, req, ret, quality, store, page, fetch,
                   provider, qpage, qload>>

\* handleSubmit up to its first await: createSession when the context has
\* no session, updateQuery when it has one
HomeHandleSubmit ==
    /\ home.route = "/"
    /\ home.query
    /\ ~home.isSubmitting
    /\ home.session_id = "none" => UnusedSessions(home) # {}
    /\ home' = Render([home EXCEPT
           !.isSubmitting = TRUE,
           !.submit = IF home.session_id = "none" THEN "creating"
                      ELSE "updating",
           !.submit_csv = home.session_id = "none" /\ home.csvFile])
    /\ UNCHANGED <<ingestVars, req, ret, quality, store, page, fetch,
                   provider, qpage, qload>>

\* handleSubmit after createSession: the session is saved, polling starts
\* when a file went with it, 'await pollCsvStatus(sessionId)' returns when
\* the interval is set, and generateQuestion is sent
SubmitSessionCreated(s, ok) ==
    /\ home.submit = "creating"
    /\ s \in UnusedSessions(home)
    /\ home' =
           IF ~ok
           THEN Render([home EXCEPT !.submit = "idle", !.submit_csv = FALSE,
                                    !.isSubmitting = FALSE])
           ELSE LET h == [home EXCEPT
                             !.submit = "question",
                             !.session_id = s,
                             !.server[s] = IF home.submit_csv THEN "pending"
                                           ELSE "none"]
                IN  IF home.submit_csv
                    THEN Render(PollCsvStatus(
                             SetCsvUploadStatus(
                                 [h EXCEPT !.csv_status = "processing"],
                                 "uploading"), s))
                    ELSE Render(h)
    /\ UNCHANGED <<ingestVars, req, ret, quality, store, page, fetch,
                   provider, qpage, qload>>

\* handleSubmit after updateQuery: generateQuestion is sent, or the catch
\* block shows the error
QueryUpdated(ok) ==
    /\ home.submit = "updating"
    /\ home' = IF ok THEN Render([home EXCEPT !.submit = "question"])
               ELSE Render([home EXCEPT !.submit = "idle",
                                        !.isSubmitting = FALSE])
    /\ UNCHANGED <<ingestVars, req, ret, quality, store, page, fetch,
                   provider, qpage, qload>>

\* handleSubmit after generateQuestion: question 1 is saved and the page
\* goes to /questions, or the error is shown
QuestionGenerated(ok) ==
    /\ home.submit = "question"
    /\ home' = IF ok
               THEN [home EXCEPT !.submit = "idle", !.route = "/questions"]
               ELSE Render([home EXCEPT !.submit = "idle",
                                        !.submit_csv = FALSE,
                                        !.isSubmitting = FALSE])
    /\ UNCHANGED <<ingestVars, req, ret, quality, store, page, fetch,
                   provider, qpage, qload>>

\* the ingestion task of a session starts, or ends
IngestionMoves(s, status) ==
    /\ \/ home.server[s] = "pending" /\ status = "processing"
       \/ home.server[s] = "processing" /\ status \in {"completed", "failed"}
    /\ home' = [home EXCEPT !.server[s] = status]
    /\ UNCHANGED <<ingestVars, req, ret, quality, store, page, fetch,
                   provider, qpage, qload>>

\* the callback of one interval up to its await: attempts++ and
\* getSessionStatus is sent; the server reads the status for it
IntervalFires(p, server) ==
    IF ~p.active THEN p
    ELSE [p EXCEPT !.attempts = @ + 1,
                   !.inflight[server[p.sessionId]] = @ + 1]

\* a second passes: the interval of every poller that has not been cleared
\* fires
SecondPasses ==
    /\ home.seconds < MaxSeconds
    /\ \E i \in 1 .. Len(home.pollers) : home.pollers[i].active
    /\ \A i \in 1 .. Len(home.pollers) :
           home.pollers[i].active => InFlight(home.pollers[i]) < MaxInFlight
    /\ home' = [home EXCEPT
           !.seconds = @ + 1,
           !.pollers = [i \in 1 .. Len(home.pollers) |->
                           IntervalFires(home.pollers[i], home.server)]]
    /\ UNCHANGED <<ingestVars, req, ret, quality, store, page, fetch,
                   provider, qpage, qload>>

\* 'Timeout after max attempts', at the end of the try block
TimeoutCheck(h, i) ==
    IF h.pollers[i].attempts >= maxAttempts
    THEN SetCsvUploadStatus([h EXCEPT !.pollers[i].active = FALSE], "error")
    ELSE h

\* the callback of poller i after its await: the response with csv_status
\* = status is handled, or getSessionStatus has thrown (ok = FALSE)
StatusArrives(i, status, ok) ==
    /\ i \in 1 .. Len(home.pollers)
    /\ home.pollers[i].inflight[status] > 0
    /\ LET h == [home EXCEPT !.pollers[i].inflight[status] = @ - 1]
       IN  home' =
               IF ~ok
               THEN Render(SetCsvUploadStatus(
                        [h EXCEPT !.pollers[i].active = FALSE], "error"))
               ELSE IF status = "completed"
               THEN Render(TimeoutCheck(
                        SetCsvUploadStatus(
                            [h EXCEPT !.pollers[i].active = FALSE,
                                      !.csv_status = "completed",
                                      !.csv_uploaded = TRUE],
                            "success"), i))
               ELSE IF status = "failed"
               THEN Render(TimeoutCheck(
                        SetCsvUploadStatus(
                            [h EXCEPT !.pollers[i].active = FALSE,
                                      !.csv_status = "failed"],
                            "error"), i))
               ELSE IF status = "processing"
               THEN Render(TimeoutCheck(
                        [h EXCEPT !.csv_status = "processing"], i))
               ELSE Render(TimeoutCheck(h, i))
    /\ UNCHANGED <<ingestVars, req, ret, quality, store, page, fetch,
                   provider, qpage, qload>>

NextHome ==
    \/ SetQuery
    \/ HandleFileSelect
    \/ \E s \in Sessions, ok \in BOOLEAN : FileSessionCreated(s, ok)
    \/ HomeMounts
    \/ HomeHandleSubmit
    \/ \E s \in Sessions, ok \in BOOLEAN : SubmitSessionCreated(s, ok)
    \/ \E ok \in BOOLEAN : QueryUpdated(ok)
    \/ \E ok \in BOOLEAN : QuestionGenerated(ok)
    \/ \E s \in Sessions, status \in ServerStatuses : IngestionMoves(s, status)
    \/ SecondPasses
    \/ \E i \in 1 .. MaxPollers, status \in ServerStatuses, ok \in BOOLEAN :
           StatusArrives(i, status, ok)

SpecHome == Init /\ [][NextHome]_vars

\* a poller of session s1 that has made all attempts but the last, each
\* answered with "processing"
LatePoller ==
    [sessionId |-> "s1", active |-> TRUE, attempts |-> maxAttempts - 1,
     inflight |-> NoInFlight]

\* Home with a file selected whose session is still being ingested when the
\* two minutes of its pollers are nearly over; seconds counts from here
LatePolling ==
    [FreshHome EXCEPT !.csvFile = TRUE, !.csvUploadStatus = "uploading",
                      !.session_id = "s1", !.csv_status = "processing",
                      !.server = [s \in Sessions |->
                                     IF s = "s1" THEN "processing"
                                     ELSE "absent"],
                      !.pollers = <<LatePoller, LatePoller>>]

InitPoller ==
    /\ InitBackend
    /\ quality = IdleQuality
    /\ store = EmptyStore
    /\ page = UnmountedPage
    /\ fetch = NoFetch
    /\ provider = FreshBrowser
    /\ qpage = FirstRender
    /\ home = LatePolling
    /\ qload = QuestionsMounted

NextPoller ==
    \/ \E s \in Sessions, status \in ServerStatuses : IngestionMoves(s, status)
    \/ SecondPasses
    \/ \E i \in 1 .. MaxPollers, status \in ServerStatuses, ok \in BOOLEAN :
           StatusArrives(i, status, ok)

SpecPoller == InitPoller /\ [][NextPoller]_vars

(***************************************************************************)
(* _calculate_quality_score over the metadata a Book can have              *)
(***************************************************************************)
\* len(description), 0 for None or ""
DescriptionLengths == {0, 1, 100, 101, 500}

\* len(categories), 0 for None or []
CategoryCounts == {0, 1, 2, 3}

\* ratings_count, 0 for None
RatingsCounts == {0, 10, 11, 100, 101}

\* page_count, 0 for None
PageCounts == {0, 320}

BookMetadata ==
    [description : DescriptionLengths, categories : CategoryCounts,
     ratings_count : RatingsCounts, page_count : PageCounts,
     publisher : BOOLEAN]

\* quality_score = _calculate_quality_score(candidate)
CalculateQualityScore ==
    /\ quality.pc = "book"
    /\ quality' = [quality EXCEPT !.pc = "scored",
                                  !.quality_score = QualityScore(quality.book)]
    /\ UNCHANGED <<ingestVars, req, ret, store, page, fetch,
                   provider, qpage, home, qload>>

InitQuality ==
    /\ InitBackend
    /\ store = EmptyStore
    /\ page = UnmountedPage
    /\ fetch = NoFetch
    /\ provider = FreshBrowser
    /\ qpage = FirstRender
    /\ home = FreshHome
    /\ qload = QuestionsMounted
    /\ quality \in {[pc |-> "book", book |-> m, quality_score |-> 0] :
                        m \in BookMetadata}

NextQuality == CalculateQualityScore

SpecQuality == InitQuality /\ [][NextQuality]_vars

(***************************************************************************)
(* Properties                                                              *)
(***************************************************************************)
StatusValues == {"pending", "processing", "completed", "failed", "none"}
TerminalStatus == {"completed", "failed"}

\* worker s takes a step
Steps(s) == pc'[s] # pc[s]

\* C1: the ingestion status of every session is always one of pending,
\* processing, completed, failed, none, and a stored status that is completed
\* or failed is never overwritten by another value.
C1_StatusTerminal ==
    /\ [](\A s \in Sessions : CsvStatus(s) \in StatusValues)
    /\ [][\A s \in Sessions :
             (/\ statusKey[s].exists
              /\ statusKey[s].value \in TerminalStatus
              /\ statusKey'[s].exists)
             => statusKey'[s].value = statusKey[s].value]_vars

\* the status is completed and time has passed since it was written
C1_Witness ==
    \E s \in Sessions :
        /\ CsvStatus(s) = "completed"
        /\ statusKey[s].ttl < SESSION_TTL

UniqueIsbn ==
    \A a, b \in books : a.isbn = b.isbn => a = b

\* C2: when two pipelines insert the same identifier concurrently, one
\* record with that identifier exists and neither pipeline ends with an
\* error of the insert.
C2_ConcurrentInsert ==
    /\ UniqueIsbn
    /\ \A s \in Sessions : error[s] # "IntegrityError"

\* C3: no two books share an isbn, and an insert of an isbn that already
\* exists leaves the books table unchanged, raises nothing and the task goes
\* on with the existing record.
C3_DuplicateInsertNoOp ==
    /\ [](UniqueIsbn)
    /\ [][\A s \in Sessions :
             (pc[s] = "insert" /\ UniqueViolation(row[s].isbn) /\ Steps(s))
             => /\ books' = books
                /\ error'[s] = "none"
                /\ \E b \in ExistingBooks(row[s].isbn) :
                       user_books'[s] =
                           Append(user_books[s], Entry(b.id, row[s].my_rating))
          ]_vars

\* three items, pairwise distinct, each one of the candidates
ValidSelection(items, candidates) ==
    /\ Len(items) = 3
    /\ \A i, j \in 1 .. Len(items) : items[i] = items[j] => i = j
    /\ \A i \in 1 .. Len(items) : items[i] \in candidates

\* C4: a request that succeeds returns exactly 3 pairwise distinct items of
\* the candidate list.
C4_ThreeDistinctCandidates ==
    (req.pc = "done" /\ Cardinality(req.candidates) >= 3)
        => ValidSelection(req.recommendations, req.candidates)

\* C5: the reranker is called at most twice, and a request goes on or fails
\* after a single call only if the answer of that call was a valid
\* selection: an invalid first answer is followed by a second call.
C5_RetryOnce ==
    /\ req.llm_calls <= 2
    /\ (/\ req.pc \in {"store", "done", "failed"}
        /\ req.llm_calls = 1
        /\ Cardinality(req.candidates) >= 3)
       => (req.response.parses
           /\ ValidSelection(req.response.items, req.candidates))

\* the row the task is at cannot be processed: it has no identifier, or the
\* metadata service does not know it
RowFails(s) ==
    \/ pc[s] = "row" /\ row[s].isbn = NoIsbn
    \/ pc[s] = "fetch" /\ row[s].isbn = UnknownIsbn

\* the row is skipped and the loop goes on with the next one
SkipsRow(s) ==
    /\ pc'[s] = "iter"
    /\ idx'[s] = idx[s] + 1
    /\ error'[s] = "none"
    /\ user_books'[s] = user_books[s]
    /\ books' = books
    /\ statusKey'[s] = statusKey[s]

\* C6: a row without identifier and a row the metadata lookup misses or
\* fails on are skipped, the loop goes on with the next row, and the run
\* that reaches its end has iterated every row and writes completed.
C6_RowFailureSkipsRow ==
    /\ [][\A s \in Sessions :
             Steps(s) =>
                 /\ RowFails(s) => SkipsRow(s)
                 /\ pc[s] = "fetch" =>
                        \/ SkipsRow(s)
                        \/ pc'[s] = "insert" /\ idx'[s] = idx[s]
                                             /\ error'[s] = "none"
                 /\ pc'[s] = "done" =>
                        /\ idx[s] = csv[s].total
                        /\ CsvStatus(s)' = "completed"
          ]_vars
    /\ [](\A s \in Sessions : pc[s] = "done" => idx[s] = csv[s].total)

\* a run of two rows that skipped one of them and ended completed
C6_Witness ==
    \E s \in Sessions :
        /\ pc[s] = "done"
        /\ csv[s].total = 2
        /\ Len(user_books[s]) = 1
        /\ CsvStatus(s) = "completed"

\* C7: a run that has ended has not left the status pending or processing.
C7_RunEndsTerminal ==
    \A s \in Sessions :
        pc[s] \in {"done", "crashed"}
            => CsvStatus(s) \notin {"pending", "processing"}

\* C8: when the session has gone while the task runs, no step of the task
\* writes a key of the session any more, and the step that finds the session
\* missing does not raise.
C8_MissingSessionExit ==
    [][\A s \in Sessions :
          (Running_(s) /\ hadSession[s] /\ ~sessionKey[s].exists /\ Steps(s))
          => /\ sessionKey'[s] = sessionKey[s]
             /\ statusKey'[s] = statusKey[s]
             /\ metaKey'[s] = metaKey[s]
             /\ pc[s] = "iter" => error'[s] = "none"
      ]_vars

\* C9: the session that existed when the run started exists as long as the
\* run is under way.
C9_LeaseHeld ==
    \A s \in Sessions :
        (Running_(s) /\ hadSession[s]) => sessionKey[s].exists

\* books_processed as stored in the session store
StoredProcessed(s) ==
    IF metaKey[s].exists THEN metaKey[s].books_processed ELSE 0

\* C10: during a run no more than N rows are processed beyond the progress
\* last written to the session store, nor beyond the last refresh of the
\* session lease.
C10_ProgressEveryN ==
    \A s \in Sessions :
        Running_(s) =>
            /\ idx[s] - StoredProcessed(s) <= PROGRESS_INTERVAL
            /\ idx[s] - leaseIdx[s] <= PROGRESS_INTERVAL

Library(s) == sessionKey[s].books_from_csv

\* C12: no book is ever removed from the books table, and when a run has
\* ended, failed or not, the entries it added are in the library of its
\* session.
C12_EntriesKept ==
    /\ SeedBooks \subseteq books
    /\ \A s \in Sessions :
           (pc[s] \in {"done", "crashed"} /\ sessionKey[s].exists)
               => Library(s) = user_books[s]

BookFields == {"id", "isbn", "embedded", "data_source"}

\* C14: a row whose isbn exists in the books table leaves the table as it
\* is and appends an entry with the rating of the row to the list of its
\* session; no book carries a rating.
C14_RatingOnlyInSession ==
    /\ [][\A s \in Sessions :
             (pc[s] = "row" /\ ExistingBooks(row[s].isbn) # {} /\ Steps(s))
             => /\ books' = books
                /\ \E b \in ExistingBooks(row[s].isbn) :
                       user_books'[s] =
                           Append(user_books[s], Entry(b.id, row[s].my_rating))
          ]_vars
    /\ [](\A b \in books : DOMAIN b = BookFields)

\* the libraries of two sessions hold the same seeded book with different
\* ratings
C14_Witness ==
    \E b \in SeedBooks :
        /\ b \in books
        /\ \E i \in 1 .. Len(Library("s1")), j \in 1 .. Len(Library("s2")) :
               /\ Library("s1")[i].book_id = b.id
               /\ Library("s2")[j].book_id = b.id
               /\ Library("s1")[i].user_rating # Library("s2")[j].user_rating
               /\ Library("s1")[i].user_rating # NoRating
               /\ Library("s2")[j].user_rating # NoRating

\* the retrieval has produced candidates
Retrieved == ret.pc \in {"semantic", "quality", "penalty", "done"}

LibraryBookIds == {ret.user_books[i].book_id : i \in 1 .. Len(ret.user_books)}

RoundHalfEven(n, d) ==
    LET q == n \div d
        r == n % d
    IN  IF 2 * r > d THEN q + 1
        ELSE IF 2 * r < d THEN q
        ELSE IF q % 2 = 0 THEN q ELSE q + 1

\* the corpus holds at least top_k books with embedding outside the library
EnoughEligible ==
    Cardinality(Eligible(books, LibraryBookIds)) >= TOP_K

\* C16 as stated: round(K * w) candidates come from the collaborative
\* search, and the list has K candidates when the corpus holds K eligible
\* books outside the library.
C16_RoundedSplit ==
    /\ Retrieved =>
           Len(ret.user_similar) =
               RoundHalfEven(TOP_K * ret.collaborative_weight, 100)
    /\ (ret.pc = "done"
        /\ Cardinality(Eligible(CorpusBooks, LibraryBookIds)) >= TOP_K)
           => Len(ret.candidates) = TOP_K

\* C16: the collaborative search contributes K * w candidates rounded down,
\* none of them a book of the library, and the query search fills the list
\* up to K candidates whenever the corpus holds K eligible books outside the
\* library.
C16_TruncatedSplit ==
    /\ [](Retrieved =>
             /\ 100 * Len(ret.user_similar)
                    <= TOP_K * ret.collaborative_weight
             /\ TOP_K * ret.collaborative_weight
                    < 100 * (Len(ret.user_similar) + 1)
             /\ \A c \in Range(ret.user_similar) : c.id \notin LibraryBookIds)
    /\ [][(ret.pc = "semantic" /\ ret'.pc = "quality" /\ EnoughEligible)
             => Len(ret'.candidates) = TOP_K]_vars
    /\ []((ret.pc = "done"
           /\ Cardinality(Eligible(CorpusBooks, LibraryBookIds)) >= TOP_K)
              => Len(ret.candidates) = TOP_K)

\* two relevant favorites: weight 0.2, 4 collaborative candidates of 20
C16_Witness ==
    /\ ret.pc = "done"
    /\ ret.tier = "relevant_favorites"
    /\ Len(ret.book_ids) = 2
    /\ ret.collaborative_weight = 20
    /\ Len(ret.user_similar) = 4
    /\ Len(ret.candidates) = TOP_K

\* C17: the weight is 0 for an empty library, and within the tier of the
\* retrieval no smaller seed set has a larger weight and no larger seed set
\* a smaller weight.
C17_WeightMonotone ==
    (ret.pc \notin {"idle", "failed"}) =>
        /\ ret.user_books = << >> => ret.collaborative_weight = 0
        /\ \A n \in 1 .. 3 * Cardinality(LibraryIds) :
               /\ n <= Len(ret.book_ids)
                      => TierWeight(ret.tier, n) <= ret.collaborative_weight
               /\ n >= Len(ret.book_ids)
                      => TierWeight(ret.tier, n) >= ret.collaborative_weight

\* three favorites none of which is relevant to the query: a larger weight
\* than one or two favorites have
C17_Witness ==
    /\ ret.pc = "done"
    /\ ret.tier = "highly_rated"
    /\ Len(ret.book_ids) = 3
    /\ ret.collaborative_weight > TierWeight("highly_rated", 2)
    /\ TierWeight("highly_rated", 2) > TierWeight("highly_rated", 1)

\* the entries of the library with a rating of at least 4, and those of them
\* whose book is similar enough to the query
Favorites ==
    {e \in Range(ret.user_books) : e.user_rating >= HIGH_RATING}

RelevantFavorites ==
    {e \in Favorites :
        Similarity(ret.query, EmbeddingOf(e.book_id)) >= SIMILARITY_THRESHOLD}

\* C18: the seed set is the relevant favorites when there are at least two,
\* otherwise all favorites when there is one, otherwise all entries of the
\* library, and it is empty exactly when the library is empty.
C18_SeedSetTiers ==
    ret.pc # "idle" =>
        /\ Range(ret.book_ids) =
               {e.book_id :
                   e \in IF Cardinality(RelevantFavorites) >= MIN_RELEVANT_BOOKS
                         THEN RelevantFavorites
                         ELSE IF Favorites # {} THEN Favorites
                         ELSE Range(ret.user_books)}
        /\ ret.book_ids = << >> <=> ret.user_books = << >>

\* the candidate with the id of c after the penalty stage
After(c) == CHOOSE a \in Range(ret.candidates) : a.id = c.id

DislikedIds == Range(BookIds(StrongDislikes(ret.user_books)))

\* C19: after the dislike penalty stage the similarity of a candidate is not
\* greater than before the stage and not less than the similarity before
\* multiplied by 1 - penalty_strength.
C19_PenaltyBounds ==
    ret.pc = "done" =>
        \A c \in Range(ret.scored) :
            /\ After(c).similarity <= c.similarity
            /\ After(c).similarity * 100
                   >= c.similarity * (100 - PENALTY_STRENGTH)

\* Scenario C: two disliked books in the library, a candidate of similarity
\* 0.8 that is at least 0.6 similar to one of them
ScenarioC(c) ==
    /\ ret.pc = "done"
    /\ Cardinality(DislikedIds) = 2
    /\ c.similarity * 100 = 80 * SimilarityUnits
    /\ MaxSimilarity(books, c.id, DislikedIds) >= DISLIKE_SIMILARITY_THRESHOLD

C21_QualityInUnitInterval ==
    quality.pc = "scored" =>
        quality.quality_score >= 0 /\ quality.quality_score <= 100

\* a book with every field present and one with none have been scored
C21_Witness ==
    /\ quality.pc = "scored"
    /\ quality.book.description > 100
    /\ quality.book.categories >= 2
    /\ quality.book.ratings_count > 100
    /\ quality.book.page_count # 0
    /\ quality.book.publisher
    /\ quality.quality_score = 100

\* C22: a request fails at the retrieval stage exactly when the retrieval
\* returns no candidate, and then with the "no candidate" condition; an
\* empty seed set only makes the collaborative weight zero and a library
\* without enough dislikes only skips the penalty.
C22_OnlyEmptyResultFails ==
    /\ ret.pc = "failed" =>
           /\ ret.error = "ValueError"
           /\ ret.candidates = << >>
    /\ ret.pc = "retrieved" => ret.candidates # << >>
    /\ ret.pc \in {"done", "retrieved"} /\ ret.book_ids = << >> =>
           ret.collaborative_weight = 0 /\ ret.user_similar = << >>
    /\ ret.pc \in {"done", "retrieved"}
           /\ Len(StrongDislikes(ret.user_books)) < MIN_DISLIKES =>
           ~ret.penalized

\* C22 for the libraries whose entries all have a rating
C22_RatedLibraries ==
    (\A i \in 1 .. Len(ret.user_books) :
         ret.user_books[i].user_rating # NoRating)
        => C22_OnlyEmptyResultFails

\* a request has failed because every book of the corpus is in the library
C22_WitnessEmpty ==
    /\ ret.pc = "failed"
    /\ ret.error = "ValueError"
    /\ Len(ret.user_books) = Cardinality(LibraryIds)

\* the similarity of a book to the query of the retrieval, before and after
\* quality scoring
RawSimilarity(id) == Candidate(id, ret.query).similarity

AdjustedSimilarity(id) ==
    (RawSimilarity(id) * QualityScore(Metadata(id))) \div 100

C24_RecordsImmutable ==
    [][\A r \in store.rows :
           r \notin store'.rows =>
               /\ store'.last = "sweep"
               /\ r.created_at < store.today - RETENTION_DAYS]_vars

\* the retention job has run and has kept a row that is exactly 30 days old,
\* whose session is gone and which has received feedback, and has deleted
\* the rows of an older request
C24_Witness ==
    /\ store.last = "sweep"
    /\ store.requests = 2
    /\ Cardinality(store.rows) = 3
    /\ \A r \in store.rows :
           /\ r.created_at = store.today - RETENTION_DAYS
           /\ r.session_id \notin store.live
           /\ \E f \in store.scores : f.trace_id = r.trace_id

\* what the page shows after a request that did not time out: no error, or
\* the message of a failed response
OrdinaryOutcomes == {"none"} \cup {UserFriendlyError(s) : s \in ErrorStatuses}

\* C25: when a request for recommendations has run for longer than a
\* request may, what the page receives for it is a condition it can tell
\* from every other outcome, and no recommendations.
C25_TimedOutNotPartial ==
    [][page'.overdue < page.overdue =>
           /\ page'.error \notin OrdinaryOutcomes
           /\ page'.recommendations = page.recommendations]_vars

\* the page shows the outcome of a request: recommendations, or none found
OutcomeShown ==
    /\ page.phase = "done"
    /\ ~page.isLoading
    /\ page.error = "none"

\* C27: once the ingestion of the session has ended in failed, the page is
\* never without a way to recommendations: a request is under way, or its
\* outcome is shown, or a button that sends the request is on the screen;
\* and "Continue Without CSV" does send the request.
C27_FailedNeverBlocks ==
    /\ [](page.mounted /\ page.server_status = "failed" =>
              \/ page.loads > 0
              \/ OutcomeShown
              \/ ENABLED HandleSkipUpload
              \/ ENABLED HandleContinueWithoutCsv
              \/ ENABLED HandleTryAgain)
    /\ [](page.mounted /\ page.csv_status = "failed" =>
              page.phase \in {"csv_failed", "loading_recommendations",
                              "done"})
    /\ [][HandleContinueWithoutCsv =>
              /\ page'.loads = page.loads + 1
              /\ page'.phase = "loading_recommendations"]_vars

\* the ingestion has failed, the user has continued without the export and
\* the page shows three recommendations
C27_Witness ==
    /\ page.mounted
    /\ page.server_status = "failed"
    /\ page.csv_status = "failed"
    /\ ~page.csv_uploaded
    /\ OutcomeShown
    /\ page.recommendations = 3

\* "Network timeout: Retry with exponential backoff (max 3 attempts)"
MAX_ATTEMPTS == 3

\* C26: for every export row the calls to Google Books are at most the
\* retry bound, a row that got the rate-limit response was called again
\* before it was given up, and a row whose calls all failed is skipped while
\* the task goes on.
C26_RateLimitRetried ==
    /\ fetch.calls <= MAX_ATTEMPTS
    /\ \A i \in 1 .. Len(fetch.log) :
           /\ fetch.log[i].calls <= MAX_ATTEMPTS
           /\ fetch.log[i].outcome = "429" => fetch.log[i].calls > 1
           /\ fetch.log[i].outcome # "200 items" => fetch.log[i].skipped

\* C26 without the retry: the calls are bounded and a failed row is skipped
C26_BoundedAndSkipped ==
    /\ fetch.calls <= MAX_ATTEMPTS
    /\ \A i \in 1 .. Len(fetch.log) :
           /\ fetch.log[i].calls <= MAX_ATTEMPTS
           /\ fetch.log[i].outcome # "200 items" => fetch.log[i].skipped

\* the mount has run to its end: no effect pending, no request under way
MountSettled ==
    /\ provider.mounted
    /\ ~provider.dirty
    /\ provider.validation = "none"

\* C28: when the stored state had expired at mount, the session it named is
\* never the session of the provider, and once the mount has run to its end
\* session_id is null and both localStorage entries are removed.
C28_ExpiredNotRestored ==
    provider.expired_id # "none" =>
        /\ provider.state.session_id # provider.expired_id
        /\ MountSettled =>
               /\ provider.state.session_id = "none"
               /\ provider.ls_id = "none"
               /\ ~provider.ls_state.present

\* a mount over an expired stored state has run to its end
C28_Reached ==
    /\ provider.expired_id # "none"
    /\ MountSettled

\* the page goes to /recommendations in this step
NavigatesToRecommendations ==
    /\ qpage.route # "/recommendations"
    /\ qpage'.route = "/recommendations"

\* C29: whatever the interleaving of Back, Next and Skip, a second click
\* before the sync of the first has settled included, currentQuestion stays
\* 1, 2 or 3, and the page goes to /recommendations only from question 3.
C29_QuestionInRange ==
    [][/\ qpage'.currentQuestion \in 1 .. 3
       /\ NavigatesToRecommendations => qpage.currentQuestion = 3]_vars

\* C30: when the page goes to /recommendations, the answers of the session
\* in the backend are the answers the client holds.
C30_BackendHasAnswers ==
    [][NavigatesToRecommendations =>
          \A k \in 1 .. 3 : qpage'.backend[k] = qpage'.answers[k]]_vars

\* the ingestion of the session of the context has ended, or a poller of
\* that session has stopped
ProcessingEnded(h) ==
    \/ h.server[h.session_id] \in {"completed", "failed"}
    \/ \E i \in 1 .. Len(h.pollers) :
           /\ h.pollers[i].sessionId = h.session_id
           /\ ~h.pollers[i].active

\* C31: when handleSubmit has created the session together with a file,
\* generateQuestion is sent, and the page goes to /questions, only after
\* the ingestion has ended (completed, failed) or polling has stopped.
C31_QuestionAfterProcessing ==
    [][/\ (home.submit = "creating" /\ home'.submit = "question"
              /\ home.submit_csv) => ProcessingEnded(home')
       /\ (home.route = "/" /\ home'.route = "/questions"
              /\ home.submit_csv) => ProcessingEnded(home')]_vars

\* the pollers of session s whose interval has not been cleared
ActivePollers(s) ==
    {i \in 1 .. Len(home.pollers) :
        home.pollers[i].sessionId = s /\ home.pollers[i].active}

\* C33: at any time at most one poller of the home page is active for a
\* session.
C33_OnePollerPerSession ==
    \A s \in Sessions : Cardinality(ActivePollers(s)) <= 1

\* C32: a poller makes at most 120 status requests, and none after it has
\* stopped.
C32_AtMostMaxAttempts ==
    [][\A i \in 1 .. Len(home.pollers) :
           /\ home'.pollers[i].attempts <= maxAttempts
           /\ ~home.pollers[i].active =>
                  /\ ~home'.pollers[i].active
                  /\ home'.pollers[i].attempts = home.pollers[i].attempts]_vars

\* a step in which a poller handles a response, or the exception, of one of
\* its status requests
PollResponseStep ==
    \E i \in 1 .. Len(home.pollers) :
        InFlight(home'.pollers[i]) < InFlight(home.pollers[i])

\* C34: the response that reports completed leaves the upload status at
\* success and csv_status at completed with csv_uploaded true, and from
\* then on no step of a poller makes the upload status error or csv_status
\* processing.
C34_CompletedStays ==
    [][PollResponseStep =>
          /\ (~home.csv_uploaded /\ home'.csv_uploaded) =>
                 /\ home'.csvUploadStatus = "success"
                 /\ home'.csv_status = "completed"
          /\ (home.csv_uploaded /\ home.csv_status = "completed"
                  /\ home.csvUploadStatus = "success") =>
                 /\ home'.csvUploadStatus # "error"
                 /\ home'.csv_status # "processing"]_vars

\* the ingestion of the session of the page has not ended
IngestionUnderWay(p) == p.server_status \in {"pending", "processing"}

\* C35: when the ingestion of the session has not ended as the
\* recommendations page opens, the page enters waiting_for_csv and polls;
\* and no request for recommendations is sent while the ingestion has not
\* ended, unless the user has chosen Skip Upload.
C35_WaitsForIngestion ==
    [][/\ ~page.mounted /\ page'.mounted /\ IngestionUnderWay(page') =>
              page'.phase = "waiting_for_csv" /\ page'.polling
       /\ page'.loads > page.loads /\ IngestionUnderWay(page') =>
              page'.skipped]_vars

\* the loads and polling loops the effect has started, over all session ids
AutomaticStarts(p) == p.starts["s1"] + p.starts["s2"]

\* C36: for one session id the initial-phase effect starts at most one load
\* or polling loop, however often it runs again; a start after the first
\* run of the effect is made only by a step that changes the session id.
C36_OneStartPerSession ==
    /\ [](\A s \in Sessions : page.starts[s] <= 1)
    /\ [][AutomaticStarts(page') > AutomaticStarts(page) =>
              \/ ~page.mounted
              \/ page'.session_id # page.session_id]_vars

\* the effect has started the polling loop of s1, has run again when a poll
\* was answered with completed, and once more for the session s2
C36_Witness ==
    /\ page.session_id = "s2"
    /\ page.starts = [s \in Sessions |-> 1]
    /\ page.csv_uploaded

\* C37: once stopPolling has run no status request is sent and the response
\* of a poll changes no phase; after Skip Upload the phase is never
\* csv_ready or csv_failed.
C37_NothingAfterStop ==
    [][/\ page.mounted /\ ~page.polling
              /\ page'.session_id = page.session_id =>
              /\ page'.polls <= page.polls
              /\ page'.polls < page.polls => page'.phase = page.phase
       /\ page'.skipped => page'.phase \notin {"csv_ready", "csv_failed"}]_vars

\* the recommendations page with the progress of its requests: the interval
\* fires while it is set, and every request gets its response or throws
SpecPageFair ==
    /\ SpecPage
    /\ WF_vars(PollTick)
    /\ WF_vars(\E ok \in BOOLEAN : PollResponse(ok))

\* C38: polling on the recommendations page stops, and waiting_for_csv is
\* left for csv_ready or csv_failed, without an action of the user: the
\* only other way out of either is that the user skips the upload.
C38_PollingStops ==
    /\ page.polling ~> ~page.polling
    /\ page.phase = "waiting_for_csv" ~>
           \/ page.phase \in {"csv_ready", "csv_failed"}
           \/ page.skipped

\* a fallback question is installed by the step
FallbackInstalled ==
    \E k \in 1 .. 3 :
        /\ qload'.questions[k] = "fallback"
        /\ qload.questions[k] # "fallback"

====
